---- MODULE Spec2Model ----
(***************************************************************************)
(* Dual-store article engine of Evasio-Nova (src/src/firebase/wiki.ts).    *)
(*                                                                         *)
(* Firestore documents are modelled as functions from field names to       *)
(* values, collections as functions from document ids to documents (a      *)
(* document exists iff its id is in the DOMAIN).  Every await of a store   *)
(* call is one step of the calling process; a store call may fail.         *)
(* Of the summary-relevant fields  title, description, tags, author and    *)
(* imageUrl  the model carries  title : the code treats the five alike.    *)
(* Timestamps (date, lastUpdated) are not modelled.                        *)
(***************************************************************************)
EXTENDS Integers, FiniteSets, TLC

\* ------------------------------------------------------------------ bounds
MaxArticles == 2
MaxCalls == 3
MaxFaults == 2
MaxConcCalls == 2
MaxCacheCalls == 3
MaxRaceCalls == 3
MaxTime == 3
MaxShadowCalls == 3
MaxCreateCalls == 2
MaxEditCalls == 2
MaxStaleCalls == 2
MaxUserCalls == 3

\* ---------------------------------------------------------------- universes
Procs == {1, 2}
Ids == 1..MaxArticles
\* an id addDoc never generates
NoSuchId == 0
Authors == {"alice", "bob"}
Contents == {"", "hello"}
Titles == {"t1", "t2"}

RatingFields == {"usefulCount", "likeCount", "dislikeCount", "articleScore"}

\* a JavaScript  undefined  (a field the object does not have) and NaN
Undef == -1
NaN == -1

\* --------------------------------------------------------- JavaScript glue
\* obj.field
Field(obj, f) == IF f \in DOMAIN obj THEN obj[f] ELSE Undef

\* x || 0  on numbers: undefined, NaN and 0 give 0
OrZero(x) == IF x = Undef THEN 0 ELSE x

\* { ...a, ...b }
Spread(a, b) ==
  [f \in DOMAIN a \cup DOMAIN b |-> IF f \in DOMAIN b THEN b[f] ELSE a[f]]

\* the object without the fields fs  (delete obj.f)
Without(obj, fs) == [f \in DOMAIN obj \ fs |-> obj[f]]

Only(obj, fs) == [f \in DOMAIN obj \cap fs |-> obj[f]]

Null == [null |-> TRUE]

NoMap == [k \in {} |-> 0]

\* ------------------------------------------------------------- score function
ContentWeight(c) == IF c = "" THEN 0 ELSE 1

\* calculateArticleScore: pure and deterministic; an injective stand-in, so
\* that a score computed from the wrong content or counters is a different
\* number.  An undefined counter makes the arithmetic NaN.
calculateArticleScore(content, likeCount, usefulCount, dislikeCount) ==
  IF Undef \in {likeCount, usefulCount, dislikeCount}
  THEN NaN
  ELSE ContentWeight(content) * 1000 + likeCount * 100 + usefulCount * 10 + dislikeCount

\* ------------------------------------------------------------ Firestore glue
Exists(coll, id) == id \in DOMAIN coll

\* setDoc(ref, data) / addDoc: the document becomes exactly data
PutDoc(coll, id, data) ==
  [k \in DOMAIN coll \cup {id} |-> IF k = id THEN data ELSE coll[k]]

\* updateDoc(ref, data) on an existing document: the named fields are overwritten
PatchDoc(coll, id, data) == [coll EXCEPT ![id] = Spread(coll[id], data)]

\* deleteDoc(ref): succeeds whether or not the document exists
RemoveDoc(coll, id) == [k \in DOMAIN coll \ {id} |-> coll[k]]

\* the singleton documents counts/article and counts/author
NoCountsDoc == [exists |-> FALSE, counts |-> NoMap]

\* setDoc(ref, {counts: m}): the document is replaced
SetCounts(m) == [exists |-> TRUE, counts |-> m]

\* setDoc(ref, {counts: m}, {merge: true}): maps are merged field by field;
\* a key the write does not name is kept
MergeCounts(cur, m) ==
  [exists |-> TRUE,
   counts |-> [k \in DOMAIN cur.counts \cup DOMAIN m |->
                 IF k \notin DOMAIN m THEN cur.counts[k]
                 ELSE IF k \in DOMAIN cur.counts THEN Spread(cur.counts[k], m[k])
                 ELSE m[k]]]

\* info/users before its first write
NoUsersDoc == [exists |-> FALSE, usernames |-> {}]

VARIABLES
  articles,          \* Content Store: wikiArticles
  summaries,         \* Summary Store: articleSummaries
  articleCountsDoc,  \* counts/article
  authorCountsDoc,   \* counts/author
  cache,             \* cacheManager entries of getArticleCountById, by article id
  pendingDelete,     \* deleteCache calls scheduled by import(...).then and not yet run
  now,               \* clock of the cache
  nextId,            \* the next id addDoc generates
  pc,                \* where each caller is in its operation
  loc,               \* each caller's operation, arguments, locals and result
  calls,             \* operations started
  faults,            \* store calls that failed
  deletedOk,         \* ids for which deleteArticle returned successfully
  likesAcked,        \* per id: the likeCount it was created with plus the
                     \* incrementLikeCount calls that returned successfully
  users,             \* user profiles: users/{uid}
  usersDoc           \* info/users: the list of usernames in use

vars == <<articles, summaries, articleCountsDoc, authorCountsDoc, cache,
          pendingDelete, now, nextId, pc, loc, calls, faults, deletedOk, likesAcked,
          users, usersDoc>>

stores == <<articles, summaries, articleCountsDoc, authorCountsDoc>>

Blank ==
  [op |-> "none", id |-> 0, arg |-> Null, out |-> "none", failed |-> {},
   article |-> Null, score |-> 0, authorDoc |-> NoCountsDoc, scan |-> Null,
   countsDoc |-> NoCountsDoc, pre |-> Null, result |-> Null]

Init ==
  /\ articles = NoMap
  /\ summaries = NoMap
  /\ articleCountsDoc = NoCountsDoc
  /\ authorCountsDoc = NoCountsDoc
  /\ cache = NoMap
  /\ pendingDelete = {}
  /\ now = 0
  /\ nextId = 1
  /\ pc = [p \in Procs |-> "idle"]
  /\ loc = [p \in Procs |-> Blank]
  /\ calls = 0
  /\ faults = 0
  /\ deletedOk = {}
  /\ likesAcked = [id \in Ids |-> 0]
  /\ users = NoMap
  /\ usersDoc = NoUsersDoc

\* ----------------------------------------------------------- step plumbing
\* a store call either succeeds or, while the fault budget lasts, fails
Attempt(ok) ==
  /\ ok \/ faults < MaxFaults
  /\ faults' = IF ok THEN faults ELSE faults + 1

Noted(p, ok) == IF ok THEN loc[p].failed ELSE loc[p].failed \cup {pc[p]}

\* the caller moves on inside its operation with locals l
Goto(p, label, l, ok) ==
  /\ pc' = [pc EXCEPT ![p] = label]
  /\ loc' = [loc EXCEPT ![p] = [l EXCEPT !.failed = Noted(p, ok)]]
  /\ UNCHANGED calls

\* the operation returns (out = "ok") or throws; the locals are dropped
Return(p, out, result) ==
  /\ pc' = [pc EXCEPT ![p] = "idle"]
  /\ loc' = [loc EXCEPT ![p] =
               [Blank EXCEPT !.op = loc[p].op, !.id = loc[p].id,
                             !.out = out, !.result = result]]
  /\ UNCHANGED calls

\* the ids a caller can name: those addDoc has generated, and one it never will
Callable == {NoSuchId} \cup {id \in Ids : id < nextId}

\* a caller starts an operation
Start(p, op, id, arg, label, l) ==
  /\ pc[p] = "idle"
  /\ calls < MaxCalls
  /\ calls' = calls + 1
  /\ pc' = [pc EXCEPT ![p] = label]
  /\ loc' = [loc EXCEPT ![p] = [l EXCEPT !.op = op, !.id = id, !.arg = arg]]
  /\ UNCHANGED faults

\* ------------------------------------------------------------ getArticleById
\* { id, ...docSnap.data() }
MainData(id) == IF Exists(articles, id) THEN articles[id] ELSE NoMap

\* the null check left out
ArticleFound_always(id) == TRUE

\* docSnap.exists() / the null check on the article that was read
ArticleFound(id) == Exists(articles, id)

\* the rating fields of the summary laid over the main data
WithRatings(mainData, summaryData) ==
  Spread(mainData,
         [likeCount |-> OrZero(Field(summaryData, "likeCount")),
          usefulCount |-> OrZero(Field(summaryData, "usefulCount")),
          dislikeCount |-> OrZero(Field(summaryData, "dislikeCount")),
          articleScore |-> OrZero(Field(summaryData, "articleScore"))])

\* the second read of getArticleById: a failure is caught and logged
Enriched(mainData, id, ok) ==
  IF ok /\ Exists(summaries, id) THEN WithRatings(mainData, summaries[id]) ELSE mainData

\* getArticleById with both reads at once
getArticleById(id) ==
  IF ArticleFound(id) THEN Enriched(MainData(id), id, TRUE) ELSE Null

\* ------------------------------------------------------------- createArticle
\* the inputs of createArticle: rating fields are part of the WikiArticle type
RatingInputs ==
  { [likeCount |-> 0, usefulCount |-> 0],
    [likeCount |-> 1, usefulCount |-> 0, dislikeCount |-> 0] }

Drafts ==
  { [title |-> "t1", content |-> "hello", tags |-> {"x"}],
    [title |-> "t2", content |-> "", tags |-> {"x"}] }

\* a title of 101 characters, a content of 10001, and nine tags
LongTitle == "title101"
HugeContent == "content10001"
NineTags == {"a", "b", "c", "d", "e", "f", "g", "h", "i"}

\* drafts that break one constraint of the schema each
InvalidDrafts ==
  { [title |-> LongTitle, content |-> "hello", tags |-> {"x"}],
    [title |-> "t1", content |-> HugeContent, tags |-> {"x"}],
    [title |-> "t1", content |-> "hello", tags |-> {}],
    [title |-> "t1", content |-> "hello", tags |-> NineTags] }

CreateInputs ==
  { Spread(Spread(d, [authorId |-> a]), r) :
      d \in Drafts, a \in Authors, r \in RatingInputs }
  \cup { Spread(d, [authorId |-> "alice", likeCount |-> 0, usefulCount |-> 0]) :
           d \in InvalidDrafts }

\* string.size() of the strings of the model
Size(str) ==
  CASE str = LongTitle -> 101
    [] str = HugeContent -> 10001
    [] str = "hello" -> 5
    [] str = "" -> 0
    [] OTHER -> 2

\* every document is written whatever it holds
AllowCreate_anything(data) == TRUE

\* the security rule of wikiArticles: allow create, for an authenticated caller
AllowCreate(data) ==
  /\ Size(data.title) <= 100
  /\ Size(data.content) <= 10000
  /\ Cardinality(data.tags) > 0
  /\ Cardinality(data.tags) <= 8

InitialScore(article) ==
  calculateArticleScore(Field(article, "content"),
                        OrZero(Field(article, "likeCount")),
                        OrZero(Field(article, "usefulCount")),
                        OrZero(Field(article, "dislikeCount")))

\* mainDbArticle: the input without the rating fields
MainDbArticle(article) == Without(article, RatingFields)

SummaryOnCreate(article, articleScore) ==
  [title |-> article.title,
   authorId |-> article.authorId,
   usefulCount |-> OrZero(Field(article, "usefulCount")),
   likeCount |-> OrZero(Field(article, "likeCount")),
   dislikeCount |-> OrZero(Field(article, "dislikeCount")),
   articleScore |-> articleScore]

NoAuthorCount ==
  [likeCount |-> 0, usefulCount |-> 0, articleScoreSum |-> 0, articleCount |-> 0]

AuthorEntry(counts, authorId) ==
  IF authorId \in DOMAIN counts THEN counts[authorId] ELSE NoAuthorCount

\* the entry is started afresh whether or not the author had one
FoldOnCreate_afresh(doc, authorId, articleScore) ==
  MergeCounts(authorCountsDoc,
    PutDoc(doc.counts, authorId,
      [likeCount |-> 0, usefulCount |-> 0,
       articleScoreSum |-> articleScore, articleCount |-> 1]))

\* updateAuthorScoreOnArticleCreate: what it writes, given the document it read
FoldOnCreate(doc, authorId, articleScore) ==
  IF doc.exists
  THEN MergeCounts(authorCountsDoc,
         PutDoc(doc.counts, authorId,
           Spread(AuthorEntry(doc.counts, authorId),
             [articleScoreSum |-> AuthorEntry(doc.counts, authorId).articleScoreSum + articleScore,
              articleCount |-> AuthorEntry(doc.counts, authorId).articleCount + 1])))
  ELSE SetCounts(PutDoc(NoMap, authorId,
         [likeCount |-> 0, usefulCount |-> 0,
          articleScoreSum |-> articleScore, articleCount |-> 1]))

\* the compensation left out
CompensatingDelete_skipped(id) == articles

\* the compensating delete of the Article after a failed summary write
CompensatingDelete(id) == RemoveDoc(articles, id)

CallCreate(p, article) ==
  /\ nextId <= MaxArticles
  /\ Start(p, "create", 0, article, "c_addDoc",
           [Blank EXCEPT !.score = InitialScore(article)])
  /\ UNCHANGED <<stores, cache, pendingDelete, now, users, usersDoc, nextId, deletedOk, likesAcked>>

\* the throw of the first catch left out: the summary is written all the same
CreateAddDoc_goesOn(p, ok) ==
  /\ pc[p] = "c_addDoc"
  /\ Attempt(ok)
  /\ IF ok /\ AllowCreate(MainDbArticle(loc[p].arg))
     THEN /\ articles' = PutDoc(articles, nextId, MainDbArticle(loc[p].arg))
          /\ nextId' = nextId + 1
          /\ Goto(p, "c_setSummary", [loc[p] EXCEPT !.id = nextId], ok)
     ELSE /\ Goto(p, "c_setSummary", loc[p], ok)
          /\ UNCHANGED <<articles, nextId>>
  /\ UNCHANGED <<summaries, articleCountsDoc, authorCountsDoc, cache,
                 pendingDelete, now, users, usersDoc, deletedOk, likesAcked>>

\* addDoc: the store rejects a document its rules do not allow
CreateAddDoc(p, ok) ==
  /\ pc[p] = "c_addDoc"
  /\ Attempt(ok)
  /\ IF ok /\ AllowCreate(MainDbArticle(loc[p].arg))
     THEN /\ articles' = PutDoc(articles, nextId, MainDbArticle(loc[p].arg))
          /\ nextId' = nextId + 1
          /\ Goto(p, "c_setSummary", [loc[p] EXCEPT !.id = nextId], ok)
     ELSE /\ Return(p, "Error", Null)
          /\ UNCHANGED <<articles, nextId>>
  /\ UNCHANGED <<summaries, articleCountsDoc, authorCountsDoc, cache,
                 pendingDelete, now, users, usersDoc, deletedOk, likesAcked>>

CreateSetSummary(p, ok) ==
  /\ pc[p] = "c_setSummary"
  /\ Attempt(ok)
  /\ IF ok
     THEN /\ summaries' = PutDoc(summaries, loc[p].id,
                                 SummaryOnCreate(loc[p].arg, loc[p].score))
          /\ likesAcked' = [likesAcked EXCEPT ![loc[p].id] =
                              OrZero(Field(loc[p].arg, "likeCount"))]
          /\ Goto(p, "c_authorGet", loc[p], ok)
     ELSE /\ Goto(p, "c_cleanup", loc[p], ok)
          /\ UNCHANGED <<summaries, likesAcked>>
  /\ UNCHANGED <<articles, articleCountsDoc, authorCountsDoc, cache,
                 pendingDelete, now, users, usersDoc, nextId, deletedOk>>

\* updateAuthorScoreOnArticleCreate runs inside the try of the summary write
CreateAuthorGet(p, ok) ==
  /\ pc[p] = "c_authorGet"
  /\ Attempt(ok)
  /\ IF ok
     THEN Goto(p, "c_authorSet", [loc[p] EXCEPT !.authorDoc = authorCountsDoc], ok)
     ELSE Goto(p, "c_cleanup", loc[p], ok)
  /\ UNCHANGED <<stores, cache, pendingDelete, now, users, usersDoc, nextId, deletedOk, likesAcked>>

CreateAuthorSet(p, ok) ==
  /\ pc[p] = "c_authorSet"
  /\ Attempt(ok)
  /\ IF ok
     THEN /\ authorCountsDoc' =
               FoldOnCreate(loc[p].authorDoc, loc[p].arg.authorId, loc[p].score)
          /\ Return(p, "ok", loc[p].id)
     ELSE /\ Goto(p, "c_cleanup", loc[p], ok)
          /\ UNCHANGED authorCountsDoc
  /\ UNCHANGED <<articles, summaries, articleCountsDoc, cache,
                 pendingDelete, now, users, usersDoc, nextId, deletedOk, likesAcked>>

\* a compensating delete that failed is tried again
CreateCleanup_retried(p, ok) ==
  /\ pc[p] = "c_cleanup"
  /\ Attempt(ok)
  /\ articles' = IF ok THEN CompensatingDelete(loc[p].id) ELSE articles
  /\ IF ok THEN Return(p, "Error", Null) ELSE Goto(p, "c_cleanup", loc[p], ok)
  /\ UNCHANGED <<summaries, articleCountsDoc, authorCountsDoc, cache,
                 pendingDelete, now, users, usersDoc, nextId, deletedOk, likesAcked>>

\* the catch of the summary write: delete the Article, log a failure, rethrow
CreateCleanup(p, ok) ==
  /\ pc[p] = "c_cleanup"
  /\ Attempt(ok)
  /\ articles' = IF ok THEN CompensatingDelete(loc[p].id) ELSE articles
  /\ Return(p, "Error", Null)
  /\ UNCHANGED <<summaries, articleCountsDoc, authorCountsDoc, cache,
                 pendingDelete, now, users, usersDoc, nextId, deletedOk, likesAcked>>

Create(p) ==
  \/ \E article \in CreateInputs : CallCreate(p, article)
  \/ \E ok \in BOOLEAN :
       \/ CreateAddDoc(p, ok)
       \/ CreateSetSummary(p, ok)
       \/ CreateAuthorGet(p, ok)
       \/ CreateAuthorSet(p, ok)
       \/ CreateCleanup(p, ok)

\* ----------------------------------------------------------- updateAuthorScore
\* the where clause left out: every summary is summed, whoever wrote it
ScanAuthor_everyone(authorId, articleId, newScore) ==
  LET mine == DOMAIN summaries
      ScoreOf(id) == IF id = articleId THEN newScore
                     ELSE OrZero(Field(summaries[id], "articleScore"))
      Sum[S \in SUBSET mine] ==
        IF S = {} THEN [score |-> 0, like |-> 0, useful |-> 0]
        ELSE LET id == CHOOSE x \in S : TRUE
                 rest == Sum[S \ {id}]
             IN [score |-> rest.score + ScoreOf(id),
                 like |-> rest.like + OrZero(Field(summaries[id], "likeCount")),
                 useful |-> rest.useful + OrZero(Field(summaries[id], "usefulCount"))]
  IN [likeCount |-> Sum[mine].like,
      usefulCount |-> Sum[mine].useful,
      articleScoreSum |-> Sum[mine].score,
      articleCount |-> Cardinality(mine)]

\* the scan of the author's summaries: the passed score stands for the stored
\* one of the article being updated
ScanAuthor(authorId, articleId, newScore) ==
  LET mine == {id \in DOMAIN summaries : summaries[id].authorId = authorId}
      ScoreOf(id) == IF id = articleId THEN newScore
                     ELSE OrZero(Field(summaries[id], "articleScore"))
      Sum[S \in SUBSET mine] ==
        IF S = {} THEN [score |-> 0, like |-> 0, useful |-> 0]
        ELSE LET id == CHOOSE x \in S : TRUE
                 rest == Sum[S \ {id}]
             IN [score |-> rest.score + ScoreOf(id),
                 like |-> rest.like + OrZero(Field(summaries[id], "likeCount")),
                 useful |-> rest.useful + OrZero(Field(summaries[id], "usefulCount"))]
  IN [likeCount |-> Sum[mine].like,
      usefulCount |-> Sum[mine].useful,
      articleScoreSum |-> Sum[mine].score,
      articleCount |-> Cardinality(mine)]

\* the entry is overwritten wholesale in the map that was read, and the map
\* is merged into the document
Recomputed(doc, authorId, entry) ==
  MergeCounts(authorCountsDoc, PutDoc(doc.counts, authorId, entry))

\* the operation updateAuthorScore was called from goes on
AfterAuthorScore(op) ==
  CASE op = "update" -> "done"
    [] op = "dislike" -> "i_readsA"
    [] OTHER -> "i_cacheUpdate"

AuthorScoreGet(p, ok) ==
  /\ pc[p] = "s_get"
  /\ Attempt(ok)
  /\ IF ok
     THEN Goto(p, "s_query", [loc[p] EXCEPT !.authorDoc = authorCountsDoc], ok)
     ELSE Return(p, "Error", Null)
  /\ UNCHANGED <<stores, cache, pendingDelete, now, users, usersDoc, nextId, deletedOk, likesAcked>>

AuthorScoreQuery(p, ok) ==
  /\ pc[p] = "s_query"
  /\ Attempt(ok)
  /\ IF ok
     THEN Goto(p, "s_set",
               [loc[p] EXCEPT !.scan = ScanAuthor(Field(loc[p].article, "authorId"),
                                                  loc[p].id, loc[p].score)], ok)
     ELSE Return(p, "Error", Null)
  /\ UNCHANGED <<stores, cache, pendingDelete, now, users, usersDoc, nextId, deletedOk, likesAcked>>

AuthorScoreSet(p, ok) ==
  /\ pc[p] = "s_set"
  /\ Attempt(ok)
  /\ IF ok
     THEN /\ authorCountsDoc' =
               Recomputed(loc[p].authorDoc, Field(loc[p].article, "authorId"), loc[p].scan)
          /\ IF AfterAuthorScore(loc[p].op) = "done"
             THEN Return(p, "ok", Null)
             ELSE Goto(p, AfterAuthorScore(loc[p].op), loc[p], ok)
     ELSE /\ Return(p, "Error", Null)
          /\ UNCHANGED authorCountsDoc
  /\ UNCHANGED <<articles, summaries, articleCountsDoc, cache,
                 pendingDelete, now, users, usersDoc, nextId, deletedOk, likesAcked>>

AuthorScore(p) ==
  \E ok \in BOOLEAN :
    \/ AuthorScoreGet(p, ok)
    \/ AuthorScoreQuery(p, ok)
    \/ AuthorScoreSet(p, ok)

\* ------------------------------------------------------------- updateArticle
\* the partial fields a caller may pass
BogusRatings == [likeCount |-> 0, usefulCount |-> 0, dislikeCount |-> 0, articleScore |-> 0]

UpdateInputs ==
  { NoMap, BogusRatings, [title |-> "t2", content |-> "hello"] }
  \cup {[title |-> x] : x \in Titles}
  \cup {[content |-> x] : x \in Contents}

\* updateData.content || article.content : an empty string is falsy
UpdatedContent(updateData, article) ==
  IF "content" \in DOMAIN updateData /\ updateData.content # ""
  THEN updateData.content
  ELSE Field(article, "content")

\* the score is recomputed from the counters of the summary read at line 319
UpdatedScore(updateData, article, summaryData) ==
  calculateArticleScore(UpdatedContent(updateData, article),
                        OrZero(Field(summaryData, "likeCount")),
                        OrZero(Field(summaryData, "usefulCount")),
                        OrZero(Field(summaryData, "dislikeCount")))

\* the partial fields written as passed
MainDbUpdateData_unstripped(updateData) == updateData

\* mainDbUpdateData: the partial fields without the rating fields
MainDbUpdateData(updateData) == Without(updateData, RatingFields)

RelevantFields == {"title"}

\* the rating fields of the partial written to the summary as well
SummaryUpdateData_withRatings(updateData, articleScore) ==
  Spread([articleScore |-> articleScore],
         Only(updateData, RelevantFields \cup RatingFields))

\* the loop over relevantFields left out: the score alone is written
SummaryUpdateData_scoreOnly(updateData, articleScore) ==
  [articleScore |-> articleScore]

SummaryUpdateData(updateData, articleScore) ==
  Spread([articleScore |-> articleScore], Only(updateData, RelevantFields))

CallUpdate(p, id, updateData) ==
  /\ Start(p, "update", id, updateData, "u_getMain", Blank)
  /\ UNCHANGED <<stores, cache, pendingDelete, now, users, usersDoc, nextId, deletedOk, likesAcked>>

\* getArticleById: the read of the Article; no Article, no update
UpdateGetMain(p, ok) ==
  /\ pc[p] = "u_getMain"
  /\ Attempt(ok)
  /\ IF ~ok THEN Return(p, "Error", Null)
     ELSE IF ~ArticleFound(loc[p].id) THEN Return(p, "NotFound", Null)
     ELSE Goto(p, "u_getSummary", [loc[p] EXCEPT !.article = MainData(loc[p].id)], ok)
  /\ UNCHANGED <<stores, cache, pendingDelete, now, users, usersDoc, nextId, deletedOk, likesAcked>>

UpdateGetSummary(p, ok) ==
  /\ pc[p] = "u_getSummary"
  /\ Attempt(ok)
  /\ Goto(p, "u_readSummary",
          [loc[p] EXCEPT !.article = Enriched(loc[p].article, loc[p].id, ok)], ok)
  /\ UNCHANGED <<stores, cache, pendingDelete, now, users, usersDoc, nextId, deletedOk, likesAcked>>

\* the summary is read again for the current counters
UpdateReadSummary(p, ok) ==
  /\ pc[p] = "u_readSummary"
  /\ Attempt(ok)
  /\ IF ok
     THEN Goto(p, "u_updateMain",
               [loc[p] EXCEPT !.score =
                  UpdatedScore(loc[p].arg, loc[p].article,
                               IF Exists(summaries, loc[p].id)
                               THEN summaries[loc[p].id] ELSE NoMap)], ok)
     ELSE Return(p, "Error", Null)
  /\ UNCHANGED <<stores, cache, pendingDelete, now, users, usersDoc, nextId, deletedOk, likesAcked>>

UpdateMain(p, ok) ==
  /\ pc[p] = "u_updateMain"
  /\ Attempt(ok)
  /\ IF ok /\ Exists(articles, loc[p].id)
     THEN /\ articles' = PatchDoc(articles, loc[p].id, MainDbUpdateData(loc[p].arg))
          /\ Goto(p, "u_updateSummary", loc[p], ok)
     ELSE /\ Return(p, "Error", Null)
          /\ UNCHANGED articles
  /\ UNCHANGED <<summaries, articleCountsDoc, authorCountsDoc, cache,
                 pendingDelete, now, users, usersDoc, nextId, deletedOk, likesAcked>>

\* summaryUpdateData always has lastUpdated and articleScore: the write always runs
UpdateSummary(p, ok) ==
  /\ pc[p] = "u_updateSummary"
  /\ Attempt(ok)
  /\ IF ok /\ Exists(summaries, loc[p].id)
     THEN /\ summaries' = PatchDoc(summaries, loc[p].id,
                                   SummaryUpdateData(loc[p].arg, loc[p].score))
          /\ Goto(p, "s_get", loc[p], ok)
     ELSE /\ Return(p, "Error", Null)
          /\ UNCHANGED summaries
  /\ UNCHANGED <<articles, articleCountsDoc, authorCountsDoc, cache,
                 pendingDelete, now, users, usersDoc, nextId, deletedOk, likesAcked>>

Update(p) ==
  \/ \E id \in Callable, updateData \in UpdateInputs : CallUpdate(p, id, updateData)
  \/ \E ok \in BOOLEAN :
       \/ UpdateGetMain(p, ok)
       \/ UpdateGetSummary(p, ok)
       \/ UpdateReadSummary(p, ok)
       \/ UpdateMain(p, ok)
       \/ UpdateSummary(p, ok)

\* ------------------------------------------------------------- deleteArticle
CallDelete(p, id) ==
  /\ Start(p, "delete", id, Null, "d_main", Blank)
  /\ UNCHANGED <<stores, cache, pendingDelete, now, users, usersDoc, nextId, deletedOk, likesAcked>>

DeleteMain(p, ok) ==
  /\ pc[p] = "d_main"
  /\ Attempt(ok)
  /\ IF ok
     THEN /\ articles' = RemoveDoc(articles, loc[p].id)
          /\ Goto(p, "d_summary", loc[p], ok)
     ELSE /\ Return(p, "Error", Null)
          /\ UNCHANGED articles
  /\ UNCHANGED <<summaries, articleCountsDoc, authorCountsDoc, cache,
                 pendingDelete, now, users, usersDoc, nextId, deletedOk, likesAcked>>

\* the inner catch left out: a failure to delete the summary ends the call
DeleteSummary_throws(p, ok) ==
  /\ pc[p] = "d_summary"
  /\ Attempt(ok)
  /\ summaries' = IF ok THEN RemoveDoc(summaries, loc[p].id) ELSE summaries
  /\ deletedOk' = IF ok THEN deletedOk \cup {loc[p].id} ELSE deletedOk
  /\ Return(p, IF ok THEN "ok" ELSE "Error", Null)
  /\ UNCHANGED <<articles, articleCountsDoc, authorCountsDoc, cache,
                 pendingDelete, now, users, usersDoc, nextId, likesAcked>>

\* a failure to delete the summary is logged and the call still returns
DeleteSummary(p, ok) ==
  /\ pc[p] = "d_summary"
  /\ Attempt(ok)
  /\ summaries' = IF ok THEN RemoveDoc(summaries, loc[p].id) ELSE summaries
  /\ deletedOk' = deletedOk \cup {loc[p].id}
  /\ Return(p, "ok", Null)
  /\ UNCHANGED <<articles, articleCountsDoc, authorCountsDoc, cache,
                 pendingDelete, now, users, usersDoc, nextId, likesAcked>>

Delete(p) ==
  \/ \E id \in Callable : CallDelete(p, id)
  \/ \E ok \in BOOLEAN : DeleteMain(p, ok) \/ DeleteSummary(p, ok)

\* every summary listed, its Article read or not
ListedArticles_all(ids) == ids

\* ------------------------------------------------------------- getAllArticles
\* the articles pushed by the loop: the ids whose getArticleById is not null
ListedArticles(ids) == {id \in ids : getArticleById(id) # Null}

CallGetAllArticles(p) ==
  /\ Start(p, "list", 0, Null, "l_summaries", [Blank EXCEPT !.pre = deletedOk])
  /\ UNCHANGED <<stores, cache, pendingDelete, now, users, usersDoc, nextId, deletedOk, likesAcked>>

\* getAllArticleSummaries: the ids of the summaries
ListSummaries(p, ok) ==
  /\ pc[p] = "l_summaries"
  /\ Attempt(ok)
  /\ IF ok
     THEN Goto(p, "l_articles", [loc[p] EXCEPT !.scan = DOMAIN summaries], ok)
     ELSE Return(p, "Error", Null)
  /\ UNCHANGED <<stores, cache, pendingDelete, now, users, usersDoc, nextId, deletedOk, likesAcked>>

\* the loop over the ids, read in one step
ListArticles(p, ok) ==
  /\ pc[p] = "l_articles"
  /\ Attempt(ok)
  /\ IF ok
     THEN Return(p, "ok", ListedArticles(loc[p].scan))
     ELSE Return(p, "Error", Null)
  /\ UNCHANGED <<stores, cache, pendingDelete, now, users, usersDoc, nextId, deletedOk, likesAcked>>

GetAllArticles(p) ==
  \/ CallGetAllArticles(p)
  \/ \E ok \in BOOLEAN : ListSummaries(p, ok) \/ ListArticles(p, ok)

\* ------------------------------------------------------- the cache of counters
\* time an entry of withCache lives
CacheTTL == 2

NoCount == [likeCount |-> 0, usefulCount |-> 0, dislikeCount |-> 0]

\* an entry is served however old it is
Fresh_forever(id) == Exists(cache, id)

\* an entry whose expiry instant has not passed
Fresh(id) == Exists(cache, id) /\ now < cache[id].expiry

\* _getArticleCountById: the counters of the summary; zeros when the summary
\* is missing or the read fails
LoadCount(id, ok) ==
  IF ok /\ Exists(summaries, id)
  THEN [likeCount |-> OrZero(Field(summaries[id], "likeCount")),
        usefulCount |-> OrZero(Field(summaries[id], "usefulCount")),
        dislikeCount |-> OrZero(Field(summaries[id], "dislikeCount"))]
  ELSE NoCount

\* cacheManager.updateArticleCount: the counters pushed into an entry that exists
UpdateArticleCount(id, likeCount, usefulCount) ==
  IF Exists(cache, id)
  THEN [cache EXCEPT ![id].value =
          Spread(@, [likeCount |-> likeCount, usefulCount |-> usefulCount])]
  ELSE cache

\* only an expired entry is removed
DeleteCache_ifExpired(id) ==
  IF Exists(cache, id) /\ now < cache[id].expiry THEN cache ELSE RemoveDoc(cache, id)

\* deleteCache(key)
DeleteCache(id) == RemoveDoc(cache, id)

\* getArticleCountById served from the cache
CountHit(p, id) ==
  /\ pc[p] = "idle"
  /\ calls < MaxCalls
  /\ Fresh(id)
  /\ calls' = calls + 1
  /\ loc' = [loc EXCEPT ![p] = [Blank EXCEPT !.op = "count", !.id = id, !.out = "ok",
                                             !.result = cache[id].value]]
  /\ UNCHANGED <<stores, cache, pendingDelete, now, users, usersDoc, nextId, pc, faults, deletedOk, likesAcked>>

CallCount(p, id) ==
  /\ ~Fresh(id)
  /\ Start(p, "count", id, Null, "g_load", Blank)
  /\ UNCHANGED <<stores, cache, pendingDelete, now, users, usersDoc, nextId, deletedOk, likesAcked>>

\* the loader runs: the getDoc of the summary is awaited
CountLoad(p, ok) ==
  /\ pc[p] = "g_load"
  /\ Attempt(ok)
  /\ Goto(p, "g_store", [loc[p] EXCEPT !.result = LoadCount(loc[p].id, ok)], ok)
  /\ UNCHANGED <<stores, cache, pendingDelete, now, users, usersDoc, nextId, deletedOk, likesAcked>>

\* the loader has returned: its value is stored with a new expiry and returned
CountStore(p) ==
  /\ pc[p] = "g_store"
  /\ Attempt(TRUE)
  /\ cache' = PutDoc(cache, loc[p].id,
                     [value |-> loc[p].result, expiry |-> now + CacheTTL])
  /\ Return(p, "ok", loc[p].result)
  /\ UNCHANGED <<stores, pendingDelete, now, users, usersDoc, nextId, deletedOk, likesAcked>>

\* the callback of import('../utils/cacheManager').then runs
DeleteCacheTask ==
  \E id \in pendingDelete :
    /\ cache' = DeleteCache(id)
    /\ pendingDelete' = pendingDelete \ {id}
    /\ UNCHANGED <<stores, now, users, usersDoc, nextId, pc, loc, calls, faults, deletedOk, likesAcked>>

GetArticleCountById(p) ==
  \/ \E id \in Callable : CountHit(p, id) \/ CallCount(p, id)
  \/ \E ok \in BOOLEAN : CountLoad(p, ok)
  \/ CountStore(p)

\* ---------------------------------------------------------- getAuthorCountById
\* a / b on numbers, b > 0: the quotient as a fraction in lowest terms
RECURSIVE GCD(_, _)
GCD(a, b) == IF b = 0 THEN a ELSE GCD(b, a % b)

Quotient(a, b) == [num |-> a \div GCD(a, b), den |-> b \div GCD(a, b)]

\* the number 0
Zero == Quotient(0, 1)

\* the sum is returned undivided
AverageScore_undivided(authorData) == Quotient(authorData.articleScoreSum, 1)

\* articleCount > 0 ? articleScoreSum / articleCount : 0
AverageScore(authorData) ==
  IF authorData.articleCount > 0
  THEN Quotient(authorData.articleScoreSum, authorData.articleCount)
  ELSE Zero

\* what getAuthorCountById returns, given the outcome of its read
AuthorCountOf(authorId, ok) ==
  IF ok /\ authorCountsDoc.exists
  THEN Spread(AuthorEntry(authorCountsDoc.counts, authorId),
              [averageScore |-> AverageScore(AuthorEntry(authorCountsDoc.counts, authorId))])
  ELSE Spread(NoAuthorCount, [averageScore |-> Zero])

CallAuthorCount(p, authorId) ==
  /\ Start(p, "authorCount", 0, [authorId |-> authorId], "a_get", Blank)
  /\ UNCHANGED <<stores, cache, pendingDelete, now, users, usersDoc, nextId, deletedOk, likesAcked>>

\* the read of counts/author: a failure is caught and zeros are returned
AuthorCountGet(p, ok) ==
  /\ pc[p] = "a_get"
  /\ Attempt(ok)
  /\ Return(p, "ok", AuthorCountOf(loc[p].arg.authorId, ok))
  /\ UNCHANGED <<stores, cache, pendingDelete, now, users, usersDoc, nextId, deletedOk, likesAcked>>

GetAuthorCountById(p) ==
  \/ \E authorId \in Authors : CallAuthorCount(p, authorId)
  \/ \E ok \in BOOLEAN : AuthorCountGet(p, ok)

\* ------------------------------------------------------------ the increments
Increments == {"useful", "like", "dislike"}

Counter(op) ==
  CASE op = "useful" -> "usefulCount"
    [] op = "like" -> "likeCount"
    [] OTHER -> "dislikeCount"

\* the gate left out
Permitted_anyone(op, isAdmin) == TRUE

\* the admin gate of incrementDislikeCount
Permitted(op, isAdmin) == op # "dislike" \/ isAdmin

\* (article.xCount || 0) + 1
NewCount(op, article) == OrZero(Field(article, Counter(op))) + 1

\* the score computed from the counters as read, before the increment
NewScore_stale(op, article) ==
  calculateArticleScore(Field(article, "content"),
                        OrZero(Field(article, "likeCount")),
                        OrZero(Field(article, "usefulCount")),
                        OrZero(Field(article, "dislikeCount")))

\* the score from the counters read, with the moved one replaced
NewScore(op, article) ==
  CASE op = "useful" ->
         calculateArticleScore(Field(article, "content"), Field(article, "likeCount"),
                               NewCount(op, article),
                               OrZero(Field(article, "dislikeCount")))
    [] op = "like" ->
         calculateArticleScore(Field(article, "content"), NewCount(op, article),
                               Field(article, "usefulCount"),
                               OrZero(Field(article, "dislikeCount")))
    [] OTHER ->
         calculateArticleScore(Field(article, "content"), Field(article, "likeCount"),
                               Field(article, "usefulCount"),
                               NewCount(op, article))

\* the counter written as the value the call computed, not increment(1)
IncrementedSummary_overwrite(l) ==
  PatchDoc(summaries, l.id,
           Spread([articleScore |-> l.score],
                  PutDoc(NoMap, Counter(l.op), NewCount(l.op, l.article))))

\* updateDoc(articleSummaryRef, { xCount: increment(1), articleScore: newScore })
\* by the call whose locals are l: increment(1) adds to the stored value
IncrementedSummary(l) ==
  PatchDoc(summaries, l.id,
           Spread([articleScore |-> l.score],
                  PutDoc(NoMap, Counter(l.op),
                         OrZero(Field(summaries[l.id], Counter(l.op))) + 1)))

\* the entry computed from the document as it is when the write lands
ShadowEntry_current(op, counts, id) ==
  LET articleCounts ==
        IF id \in DOMAIN articleCountsDoc.counts THEN articleCountsDoc.counts[id]
        ELSE [likeCount |-> 0, usefulCount |-> 0]
  IN Spread(articleCounts,
            PutDoc(NoMap, Counter(op), OrZero(Field(articleCounts, Counter(op))) + 1))

\* the entry of counts/article after the increment, from the map that was read
ShadowEntry(op, counts, id) ==
  LET articleCounts ==
        IF id \in DOMAIN counts THEN counts[id]
        ELSE IF op = "dislike"
             THEN [likeCount |-> 0, usefulCount |-> 0, dislikeCount |-> 0]
             ELSE [likeCount |-> 0, usefulCount |-> 0]
  IN Spread(articleCounts,
            PutDoc(NoMap, Counter(op),
                   IF op = "dislike"
                   THEN OrZero(Field(articleCounts, "dislikeCount")) + 1
                   ELSE articleCounts[Counter(op)] + 1))

\* the first entry of counts/article, from the article read again
FirstShadowEntry(op, articleData) ==
  LET like == OrZero(Field(articleData, "likeCount"))
      useful == OrZero(Field(articleData, "usefulCount"))
  IN CASE op = "useful" ->
            [likeCount |-> like,
             usefulCount |-> IF useful # 0 THEN useful + 1 ELSE 1]
       [] op = "like" ->
            [likeCount |-> IF like # 0 THEN like + 1 ELSE 1,
             usefulCount |-> useful]
       [] OTHER ->
            [likeCount |-> like, usefulCount |-> useful, dislikeCount |-> 1]

\* the entry of counts/author after the increment, from the map that was read
AuthorEntryPlusOne(op, counts, authorId) ==
  Spread(AuthorEntry(counts, authorId),
         PutDoc(NoMap, Counter(op), AuthorEntry(counts, authorId)[Counter(op)] + 1))

FirstAuthorEntry(op, articleScore) ==
  [likeCount |-> IF op = "like" THEN 1 ELSE 0,
   usefulCount |-> IF op = "useful" THEN 1 ELSE 0,
   articleScoreSum |-> articleScore,
   articleCount |-> 1]

\* the call; a dislike without the admin flag throws before anything is read
CallIncrement(p, op, id, isAdmin) ==
  /\ IF Permitted(op, isAdmin)
     THEN Start(p, op, id, [isAdmin |-> isAdmin], "i_getMain",
                [Blank EXCEPT !.pre = IF Exists(summaries, id) THEN summaries[id] ELSE Null])
     ELSE /\ pc[p] = "idle"
          /\ calls < MaxCalls
          /\ calls' = calls + 1
          /\ loc' = [loc EXCEPT ![p] = [Blank EXCEPT !.op = op, !.id = id,
                                                     !.arg = [isAdmin |-> isAdmin],
                                                     !.out = "PermissionDenied"]]
          /\ UNCHANGED <<pc, faults>>
  /\ UNCHANGED <<stores, cache, pendingDelete, now, users, usersDoc, nextId, deletedOk, likesAcked>>

IncrementGetMain(p, ok) ==
  /\ pc[p] = "i_getMain"
  /\ Attempt(ok)
  /\ IF ~ok THEN Return(p, "Error", Null)
     ELSE IF ~ArticleFound(loc[p].id) THEN Return(p, "NotFound", Null)
     ELSE Goto(p, "i_getSummary", [loc[p] EXCEPT !.article = MainData(loc[p].id)], ok)
  /\ UNCHANGED <<stores, cache, pendingDelete, now, users, usersDoc, nextId, deletedOk, likesAcked>>

IncrementGetSummary(p, ok) ==
  /\ pc[p] = "i_getSummary"
  /\ Attempt(ok)
  /\ LET article == Enriched(loc[p].article, loc[p].id, ok)
     IN Goto(p, "i_updateSummary",
             [loc[p] EXCEPT !.article = article,
                            !.score = NewScore(loc[p].op, article)], ok)
  /\ UNCHANGED <<stores, cache, pendingDelete, now, users, usersDoc, nextId, deletedOk, likesAcked>>

\* setDoc with merge in place of updateDoc: a missing summary is written anew
IncrementUpdateSummary_upsert(p, ok) ==
  /\ pc[p] = "i_updateSummary"
  /\ Attempt(ok)
  /\ IF ok
     THEN /\ summaries' =
               IF Exists(summaries, loc[p].id) THEN IncrementedSummary(loc[p])
               ELSE PutDoc(summaries, loc[p].id,
                           Spread(SummaryOnCreate(loc[p].article, loc[p].score),
                                  PutDoc(NoMap, Counter(loc[p].op),
                                         NewCount(loc[p].op, loc[p].article))))
          /\ Goto(p, "s_get", loc[p], ok)
     ELSE /\ Return(p, "Error", Null)
          /\ UNCHANGED summaries
  /\ UNCHANGED <<articles, articleCountsDoc, authorCountsDoc, cache,
                 pendingDelete, now, users, usersDoc, nextId, deletedOk, likesAcked>>

IncrementUpdateSummary(p, ok) ==
  /\ pc[p] = "i_updateSummary"
  /\ Attempt(ok)
  /\ IF ok /\ Exists(summaries, loc[p].id)
     THEN /\ summaries' = IncrementedSummary(loc[p])
          /\ Goto(p, "s_get", loc[p], ok)
     ELSE /\ Return(p, "Error", Null)
          /\ UNCHANGED summaries
  /\ UNCHANGED <<articles, articleCountsDoc, authorCountsDoc, cache,
                 pendingDelete, now, users, usersDoc, nextId, deletedOk, likesAcked>>

\* the try around the cache update left out: its failure ends the call
IncrementCacheUpdate_throws(p, ok) ==
  /\ pc[p] = "i_cacheUpdate"
  /\ Attempt(ok)
  /\ IF ok THEN Goto(p, "i_reads", loc[p], ok) ELSE Return(p, "Error", Null)
  /\ UNCHANGED <<stores, cache, pendingDelete, now, users, usersDoc, nextId, deletedOk, likesAcked>>

\* a failure of the cache update is caught and logged
IncrementCacheUpdate(p, ok) ==
  /\ pc[p] = "i_cacheUpdate"
  /\ Attempt(ok)
  /\ cache' = IF ok
              THEN UpdateArticleCount(loc[p].id,
                     IF loc[p].op = "like" THEN NewCount("like", loc[p].article)
                     ELSE Field(loc[p].article, "likeCount"),
                     IF loc[p].op = "useful" THEN NewCount("useful", loc[p].article)
                     ELSE Field(loc[p].article, "usefulCount"))
              ELSE cache
  /\ Goto(p, "i_reads", loc[p], ok)
  /\ UNCHANGED <<stores, pendingDelete, now, users, usersDoc, nextId, deletedOk, likesAcked>>

\* Promise.all of the two reads: they complete in either order
IncrementReadCounts(p, ok) ==
  /\ pc[p] \in {"i_reads", "i_readsA"}
  /\ Attempt(ok)
  /\ IF ok
     THEN Goto(p, IF pc[p] = "i_reads" THEN "i_readsC"
                  ELSE IF articleCountsDoc.exists THEN "i_setCounts" ELSE "i_newMain",
               [loc[p] EXCEPT !.countsDoc = articleCountsDoc], ok)
     ELSE Return(p, "Error", Null)
  /\ UNCHANGED <<stores, cache, pendingDelete, now, users, usersDoc, nextId, deletedOk, likesAcked>>

IncrementReadAuthor(p, ok) ==
  /\ pc[p] \in {"i_reads", "i_readsC"}
  /\ Attempt(ok)
  /\ IF ok
     THEN Goto(p, IF pc[p] = "i_reads" THEN "i_readsA"
                  ELSE IF loc[p].countsDoc.exists THEN "i_setCounts" ELSE "i_newMain",
               [loc[p] EXCEPT !.authorDoc = authorCountsDoc], ok)
     ELSE Return(p, "Error", Null)
  /\ UNCHANGED <<stores, cache, pendingDelete, now, users, usersDoc, nextId, deletedOk, likesAcked>>

\* after the write of counts/article: the author part, or the end for a dislike
IncrementEnds(p) ==
  /\ pendingDelete' = pendingDelete \cup {loc[p].id}
  /\ likesAcked' = IF loc[p].op = "like"
                   THEN [likesAcked EXCEPT ![loc[p].id] = @ + 1]
                   ELSE likesAcked
  /\ Return(p, "ok", Null)

AfterCounts(p, ok) ==
  IF loc[p].op = "dislike"
  THEN IncrementEnds(p)
  ELSE /\ Goto(p, "i_authorSummary", loc[p], ok)
       /\ UNCHANGED <<pendingDelete, likesAcked>>

IncrementSetCounts(p, ok) ==
  /\ pc[p] = "i_setCounts"
  /\ Attempt(ok)
  /\ IF ok
     THEN /\ articleCountsDoc' =
               MergeCounts(articleCountsDoc,
                           PutDoc(loc[p].countsDoc.counts, loc[p].id,
                                  ShadowEntry(loc[p].op, loc[p].countsDoc.counts, loc[p].id)))
          /\ AfterCounts(p, ok)
     ELSE /\ Return(p, "Error", Null)
          /\ UNCHANGED <<articleCountsDoc, pendingDelete, likesAcked>>
  /\ UNCHANGED <<articles, summaries, authorCountsDoc, cache, now, users, usersDoc, nextId, deletedOk>>

\* counts/article did not exist: the article is read again
IncrementNewMain(p, ok) ==
  /\ pc[p] = "i_newMain"
  /\ Attempt(ok)
  /\ IF ~ok THEN Return(p, "Error", Null)
     ELSE IF ~ArticleFound(loc[p].id)
          THEN Goto(p, "i_newCounts", [loc[p] EXCEPT !.scan = NoMap], ok)
          ELSE Goto(p, "i_newSummary", [loc[p] EXCEPT !.scan = MainData(loc[p].id)], ok)
  /\ UNCHANGED <<stores, cache, pendingDelete, now, users, usersDoc, nextId, deletedOk, likesAcked>>

IncrementNewSummary(p, ok) ==
  /\ pc[p] = "i_newSummary"
  /\ Attempt(ok)
  /\ Goto(p, "i_newCounts",
          [loc[p] EXCEPT !.scan = Enriched(loc[p].scan, loc[p].id, ok)], ok)
  /\ UNCHANGED <<stores, cache, pendingDelete, now, users, usersDoc, nextId, deletedOk, likesAcked>>

IncrementNewCounts(p, ok) ==
  /\ pc[p] = "i_newCounts"
  /\ Attempt(ok)
  /\ IF ok
     THEN /\ articleCountsDoc' =
               SetCounts(PutDoc(NoMap, loc[p].id, FirstShadowEntry(loc[p].op, loc[p].scan)))
          /\ AfterCounts(p, ok)
     ELSE /\ Return(p, "Error", Null)
          /\ UNCHANGED <<articleCountsDoc, pendingDelete, likesAcked>>
  /\ UNCHANGED <<articles, summaries, authorCountsDoc, cache, now, users, usersDoc, nextId, deletedOk>>

\* the summary is read for its score before counts/author is written
IncrementAuthorSummary(p, ok) ==
  /\ pc[p] = "i_authorSummary"
  /\ Attempt(ok)
  /\ IF ok
     THEN Goto(p, "i_authorSet",
               [loc[p] EXCEPT !.score =
                  IF Exists(summaries, loc[p].id)
                  THEN OrZero(Field(summaries[loc[p].id], "articleScore")) ELSE 0], ok)
     ELSE Return(p, "Error", Null)
  /\ UNCHANGED <<stores, cache, pendingDelete, now, users, usersDoc, nextId, deletedOk, likesAcked>>

IncrementAuthorSet(p, ok) ==
  /\ pc[p] = "i_authorSet"
  /\ Attempt(ok)
  /\ IF ok
     THEN /\ authorCountsDoc' =
               IF loc[p].authorDoc.exists
               THEN MergeCounts(authorCountsDoc,
                      PutDoc(loc[p].authorDoc.counts, loc[p].article.authorId,
                             AuthorEntryPlusOne(loc[p].op, loc[p].authorDoc.counts,
                                                loc[p].article.authorId)))
               ELSE SetCounts(PutDoc(NoMap, loc[p].article.authorId,
                                     FirstAuthorEntry(loc[p].op, loc[p].score)))
          /\ IncrementEnds(p)
     ELSE /\ Return(p, "Error", Null)
          /\ UNCHANGED <<authorCountsDoc, pendingDelete, likesAcked>>
  /\ UNCHANGED <<articles, summaries, articleCountsDoc, cache, now, users, usersDoc, nextId, deletedOk>>

Increment(p) ==
  \/ \E op \in Increments, id \in Callable, isAdmin \in BOOLEAN :
       CallIncrement(p, op, id, isAdmin)
  \/ \E ok \in BOOLEAN :
       \/ IncrementGetMain(p, ok)
       \/ IncrementGetSummary(p, ok)
       \/ IncrementUpdateSummary(p, ok)
       \/ IncrementCacheUpdate(p, ok)
       \/ IncrementReadCounts(p, ok)
       \/ IncrementReadAuthor(p, ok)
       \/ IncrementSetCounts(p, ok)
       \/ IncrementNewMain(p, ok)
       \/ IncrementNewSummary(p, ok)
       \/ IncrementNewCounts(p, ok)
       \/ IncrementAuthorSummary(p, ok)
       \/ IncrementAuthorSet(p, ok)

\* ------------------------------------------------------------ specifications
Operation(p) ==
  \/ Create(p)
  \/ Update(p)
  \/ Delete(p)
  \/ Increment(p)
  \/ AuthorScore(p)
  \/ GetAllArticles(p)
  \/ GetArticleCountById(p)
  \/ GetAuthorCountById(p)

\* one caller: no two operations overlap
Next == DeleteCacheTask \/ Operation(1)

Spec == Init /\ [][Next]_vars

\* the system once createArticle(article) has returned the first id
Created(article) ==
  /\ articles = PutDoc(NoMap, 1, MainDbArticle(article))
  /\ summaries = PutDoc(NoMap, 1, SummaryOnCreate(article, InitialScore(article)))
  /\ articleCountsDoc = NoCountsDoc
  /\ authorCountsDoc = SetCounts(PutDoc(NoMap, article.authorId,
                          [likeCount |-> 0, usefulCount |-> 0,
                           articleScoreSum |-> InitialScore(article), articleCount |-> 1]))
  /\ cache = NoMap
  /\ pendingDelete = {}
  /\ now = 0
  /\ nextId = 2
  /\ pc = [p \in Procs |-> "idle"]
  /\ loc = [p \in Procs |-> Blank]
  /\ calls = 0
  /\ faults = 0
  /\ deletedOk = {}
  /\ likesAcked = [id \in Ids |-> IF id = 1 THEN OrZero(Field(article, "likeCount")) ELSE 0]
  /\ users = NoMap
  /\ usersDoc = NoUsersDoc

\* one author's first article, created with and without likes
Seeds ==
  {a \in CreateInputs :
     a.authorId = "alice" /\ a.title = "t1" /\ AllowCreate(MainDbArticle(a))}

InitConc == \E article \in Seeds : Created(article)

\* ratings overlap: both callers rate the article and their increments
\* interleave store call by store call; every store call succeeds
Rating(p) ==
  /\ Increment(p) \/ AuthorScore(p)
  /\ faults' = faults
  /\ calls' <= MaxConcCalls

NextConc == DeleteCacheTask \/ \E p \in Procs : Rating(p)

SpecConc == InitConc /\ [][NextConc]_vars

\* time passes.  The clock is read against the expiry of an entry only, so
\* it is advanced only while the cache holds one.
Tick ==
  /\ cache # NoMap
  /\ now < MaxTime
  /\ now' = now + 1
  /\ UNCHANGED <<stores, cache, pendingDelete, nextId, pc, loc, calls, faults,
                 deletedOk, likesAcked, users, usersDoc>>

\* one caller rates the article and reads its counters through the cache
\* while time passes; every store call succeeds
Reading(p) ==
  /\ Increment(p) \/ AuthorScore(p) \/ GetArticleCountById(p)
  /\ faults' = faults
  /\ calls' <= MaxCacheCalls

NextCache == Tick \/ DeleteCacheTask \/ Reading(1)

SpecCache == InitConc /\ [][NextCache]_vars

\* two callers like the one article: their incrementLikeCount calls overlap
\* or follow each other; every store call succeeds
Liking(p) ==
  /\ Increment(p) \/ AuthorScore(p)
  /\ faults' = faults
  /\ calls' <= MaxRaceCalls
  /\ calls' # calls => (loc'[p].op = "like" /\ Exists(summaries, loc'[p].id))

NextRace == DeleteCacheTask \/ \E p \in Procs : Liking(p)

SpecRace == InitConc /\ [][NextRace]_vars

\* the counter each caller moves when a like and a useful overlap
OpOf(p) == IF p = 1 THEN "like" ELSE "useful"

\* caller 1 likes and caller 2 marks useful the one article: the calls
\* overlap or follow each other; every store call succeeds
Marking(p) ==
  /\ Increment(p) \/ AuthorScore(p)
  /\ faults' = faults
  /\ calls' <= MaxShadowCalls
  /\ calls' # calls => (loc'[p].op = OpOf(p) /\ Exists(summaries, loc'[p].id))

NextShadow == DeleteCacheTask \/ \E p \in Procs : Marking(p)

\* the article as createArticle leaves it when it was passed zero counters
InitShadow == \E article \in Seeds : article.likeCount = 0 /\ Created(article)

SpecShadow == InitShadow /\ [][NextShadow]_vars

\* two callers create articles from the empty system: their createArticle
\* calls overlap or follow each other; every store call succeeds
Creating(p) ==
  /\ Create(p)
  /\ faults' = faults
  /\ calls' <= MaxCreateCalls

NextCreate == \E p \in Procs : Creating(p)

SpecCreate == Init /\ [][NextCreate]_vars

\* caller 1 edits or deletes while caller 2 rates: an updateArticle or a
\* deleteArticle call overlaps or follows an increment; every store call
\* succeeds
Editing(p) ==
  /\ IF p = 1
     THEN Update(p) \/ Delete(p) \/ AuthorScore(p)
     ELSE Increment(p) \/ AuthorScore(p)
  /\ faults' = faults
  /\ calls' <= MaxEditCalls

NextEdit == DeleteCacheTask \/ \E p \in Procs : Editing(p)

SpecEdit == InitConc /\ [][NextEdit]_vars

\* caller 1 reads the counters through the cache while caller 2 rates: a
\* getArticleCountById call overlaps or follows an increment; every store
\* call succeeds
Racing(p) ==
  /\ IF p = 1 THEN GetArticleCountById(p) ELSE Increment(p) \/ AuthorScore(p)
  /\ faults' = faults
  /\ calls' <= MaxStaleCalls

NextStale == DeleteCacheTask \/ \E p \in Procs : Racing(p)

SpecStale == InitConc /\ [][NextStale]_vars

\* the same overlap on an article created with an empty content
InitDraft ==
  \E article \in CreateInputs :
    /\ article.authorId = "alice"
    /\ article.content = ""
    /\ AllowCreate(MainDbArticle(article))
    /\ Created(article)

SpecDraft == InitDraft /\ [][NextEdit]_vars

\* ---------------------------------------------------------- user profiles
Uids == {"u1", "u2"}
Usernames == {"ann", "ben"}

\* the username isUsernameTaken checks for the call whose locals are l
CheckedName(l) == IF l.op = "profile" THEN l.arg.username ELSE l.arg.newUsername

\* where the caller of isUsernameTaken goes on when the name is free
AfterCheck(op) == IF op = "profile" THEN "p_register" ELSE "n_update"

\* createOrUpdateUserProfile(user): displayName || ... is the username
CallProfile(p, uid, displayName) ==
  /\ Start(p, "profile", NoSuchId, [uid |-> uid, username |-> displayName],
           "p_get", Blank)
  /\ UNCHANGED <<stores, cache, pendingDelete, now, nextId, deletedOk, likesAcked,
                 users, usersDoc>>

\* getDoc(userRef): a new user goes through the username check
ProfileGet(p, ok) ==
  /\ pc[p] = "p_get"
  /\ Attempt(ok)
  /\ IF ~ok THEN Return(p, "Error", Null)
     ELSE IF Exists(users, loc[p].arg.uid) THEN Goto(p, "p_update", loc[p], ok)
     ELSE Goto(p, "t_get", loc[p], ok)
  /\ UNCHANGED <<stores, cache, pendingDelete, now, nextId, deletedOk, likesAcked,
                 users, usersDoc>>

\* usernames.includes(username)
UsernameTaken(doc, username) == username \in doc.usernames

\* isUsernameTaken: the getDoc of info/users
UsernameTakenGet(p, ok) ==
  /\ pc[p] = "t_get"
  /\ Attempt(ok)
  /\ IF ~ok THEN Return(p, "Error", Null)
     ELSE IF ~usersDoc.exists THEN Goto(p, "t_init", loc[p], ok)
     ELSE IF UsernameTaken(usersDoc, CheckedName(loc[p]))
          THEN Return(p, "UsernameInUse", Null)
          ELSE Goto(p, AfterCheck(loc[p].op), loc[p], ok)
  /\ UNCHANGED <<stores, cache, pendingDelete, now, nextId, deletedOk, likesAcked,
                 users, usersDoc>>

\* isUsernameTaken: setDoc(usersDoc, { usernames: [] }) when there was no document
UsernameTakenInit(p, ok) ==
  /\ pc[p] = "t_init"
  /\ Attempt(ok)
  /\ IF ok
     THEN /\ usersDoc' = [exists |-> TRUE, usernames |-> {}]
          /\ Goto(p, AfterCheck(loc[p].op), loc[p], ok)
     ELSE /\ Return(p, "Error", Null)
          /\ UNCHANGED usersDoc
  /\ UNCHANGED <<stores, cache, pendingDelete, now, nextId, deletedOk, likesAcked,
                 users>>

\* registerUsername: updateDoc(usersDoc, { usernames: arrayUnion(username) })
RegisterUsername(p, ok) ==
  /\ pc[p] \in {"p_register", "n_register"}
  /\ Attempt(ok)
  /\ IF ok /\ usersDoc.exists
     THEN /\ usersDoc' = [usersDoc EXCEPT !.usernames = @ \cup {CheckedName(loc[p])}]
          /\ IF pc[p] = "p_register"
             THEN Goto(p, "p_set", loc[p], ok)
             ELSE Return(p, "ok", Null)
     ELSE /\ Return(p, "Error", Null)
          /\ UNCHANGED usersDoc
  /\ UNCHANGED <<stores, cache, pendingDelete, now, nextId, deletedOk, likesAcked,
                 users>>

\* setDoc(userRef, { displayName: username, username, ... }) of a new user
ProfileSet(p, ok) ==
  /\ pc[p] = "p_set"
  /\ Attempt(ok)
  /\ users' = IF ok
              THEN PutDoc(users, loc[p].arg.uid,
                          [displayName |-> loc[p].arg.username,
                           username |-> loc[p].arg.username])
              ELSE users
  /\ Return(p, IF ok THEN "ok" ELSE "Error", Null)
  /\ UNCHANGED <<stores, cache, pendingDelete, now, nextId, deletedOk, likesAcked,
                 usersDoc>>

\* updateDoc(userRef, { lastLoginAt, displayName }) of an existing user
ProfileUpdate(p, ok) ==
  /\ pc[p] = "p_update"
  /\ Attempt(ok)
  /\ users' = IF ok /\ Exists(users, loc[p].arg.uid)
              THEN PatchDoc(users, loc[p].arg.uid,
                            [displayName |-> loc[p].arg.username])
              ELSE users
  /\ Return(p, IF ok /\ Exists(users, loc[p].arg.uid) THEN "ok" ELSE "Error", Null)
  /\ UNCHANGED <<stores, cache, pendingDelete, now, nextId, deletedOk, likesAcked,
                 usersDoc>>

\* updateUsername(uid, oldUsername, newUsername)
CallRename(p, uid, oldUsername, newUsername) ==
  /\ Start(p, "rename", NoSuchId,
           [uid |-> uid, oldUsername |-> oldUsername, newUsername |-> newUsername],
           "t_get", Blank)
  /\ UNCHANGED <<stores, cache, pendingDelete, now, nextId, deletedOk, likesAcked,
                 users, usersDoc>>

\* updateDoc(userRef, { displayName: newUsername, username: newUsername })
RenameUpdate(p, ok) ==
  /\ pc[p] = "n_update"
  /\ Attempt(ok)
  /\ IF ok /\ Exists(users, loc[p].arg.uid)
     THEN /\ users' = PatchDoc(users, loc[p].arg.uid,
                               [displayName |-> loc[p].arg.newUsername,
                                username |-> loc[p].arg.newUsername])
          /\ Goto(p, "n_remove", loc[p], ok)
     ELSE /\ Return(p, "Error", Null)
          /\ UNCHANGED users
  /\ UNCHANGED <<stores, cache, pendingDelete, now, nextId, deletedOk, likesAcked,
                 usersDoc>>

\* removeUsername: updateDoc(usersDoc, { usernames: arrayRemove(oldUsername) })
RemoveUsername(p, ok) ==
  /\ pc[p] = "n_remove"
  /\ Attempt(ok)
  /\ IF ok /\ usersDoc.exists
     THEN /\ usersDoc' = [usersDoc EXCEPT !.usernames = @ \ {loc[p].arg.oldUsername}]
          /\ Goto(p, "n_register", loc[p], ok)
     ELSE /\ Return(p, "Error", Null)
          /\ UNCHANGED usersDoc
  /\ UNCHANGED <<stores, cache, pendingDelete, now, nextId, deletedOk, likesAcked,
                 users>>

\* a sign-in of any user under any display name, and a rename of a user who
\* has a profile, away from the username the profile carries
Profiles(p) ==
  \/ \E uid \in Uids, displayName \in Usernames : CallProfile(p, uid, displayName)
  \/ \E uid \in DOMAIN users, newUsername \in Usernames :
       CallRename(p, uid, users[uid].username, newUsername)
  \/ \E ok \in BOOLEAN :
       \/ ProfileGet(p, ok)
       \/ UsernameTakenGet(p, ok)
       \/ UsernameTakenInit(p, ok)
       \/ RegisterUsername(p, ok)
       \/ ProfileSet(p, ok)
       \/ ProfileUpdate(p, ok)
       \/ RenameUpdate(p, ok)
       \/ RemoveUsername(p, ok)

\* two sessions sign in and rename: their calls overlap or follow each
\* other; every store call succeeds
Registering(p) ==
  /\ Profiles(p)
  /\ faults' = faults
  /\ calls' <= MaxUserCalls

NextUsers == \E p \in Procs : Registering(p)

SpecUsers == Init /\ [][NextUsers]_vars

\* ------------------------------------------------------------------- claims
Idle == \A p \in Procs : pc[p] = "idle"

\* caller p returns from op with outcome out in this step
Returns(p, op, out) ==
  /\ pc[p] # "idle"
  /\ loc[p].op = op
  /\ pc'[p] = "idle"
  /\ loc'[p].out = out

Counters == {"likeCount", "usefulCount", "dislikeCount"}

\* an author's aggregate computed from the summaries alone
FromScratch(authorId) == ScanAuthor(authorId, 0, 0)

CoherentScore(id) ==
  summaries[id].articleScore =
    calculateArticleScore(articles[id].content, summaries[id].likeCount,
                          summaries[id].usefulCount, summaries[id].dislikeCount)

\* C1: when the summary write of createArticle failed and the compensating
\* delete succeeded, createArticle throws and the Content Store holds no
\* Article under the generated id.
C1_Compensation ==
  [][\A p \in Procs :
       (/\ pc[p] = "c_cleanup"
        /\ loc[p].failed = {"c_setSummary"}
        /\ pc'[p] = "idle"
        /\ faults' = faults)
       => (loc'[p].out = "Error" /\ ~Exists(articles', loc[p].id))]_vars

C1_Witness ==
  /\ loc[1].op = "create"
  /\ loc[1].out = "Error"
  /\ loc[1].id # 0
  /\ ~Exists(summaries, loc[1].id)
  /\ ~Exists(articles, loc[1].id)

\* C2: after an increment has returned, no store call having failed, the
\* entry of the article's author in counts/author equals the aggregate
\* recomputed from scratch over the author's summaries.
C2_SelfHealing ==
  \A p \in Procs :
    (/\ Idle
     /\ faults = 0
     /\ loc[p].op \in Increments
     /\ loc[p].out = "ok"
     /\ Exists(summaries, loc[p].id))
    => AuthorEntry(authorCountsDoc.counts, summaries[loc[p].id].authorId)
         = FromScratch(summaries[loc[p].id].authorId)

\* C3: an increment that returns, none of its store calls having failed, has
\* raised the targeted counter of the summary by one, left the other two
\* counters alone, and set articleScore to the score of the content and the
\* counters after the increment.
C3_Increment ==
  [][\A p \in Procs : \A op \in Increments :
       (Returns(p, op, "ok") /\ loc[p].failed = {} /\ faults' = faults)
       => LET id == loc[p].id
              before == loc[p].pre
              after == summaries'[id]
          IN /\ before # Null
             /\ after[Counter(op)] = before[Counter(op)] + 1
             /\ \A c \in Counters \ {Counter(op)} : after[c] = before[c]
             /\ after.articleScore =
                  calculateArticleScore(articles'[id].content, after.likeCount,
                                        after.usefulCount, after.dislikeCount)]_vars

C3_Witness ==
  /\ Idle
  /\ faults = 0
  /\ loc[1].op = "dislike"
  /\ loc[1].out = "ok"
  /\ Exists(summaries, loc[1].id)
  /\ summaries[loc[1].id].dislikeCount = 1
  /\ summaries[loc[1].id].likeCount = 1

\* C4: once every overlapping incrementLikeCount call on an article has
\* returned, the likeCount of its summary is the value it was created with
\* plus the number of calls that returned successfully.
C4_AtomicCounter ==
  \A id \in DOMAIN summaries :
    (\A p \in Procs : pc[p] = "idle" \/ loc[p].id # id \/ loc[p].op # "like")
    => summaries[id].likeCount = likesAcked[id]

C4_Witness ==
  /\ Idle
  /\ loc[1].op = "like" /\ loc[1].out = "ok"
  /\ loc[2].op = "like" /\ loc[2].out = "ok"
  /\ loc[1].id = loc[2].id
  /\ summaries[loc[1].id].likeCount = likesAcked[loc[1].id]
  /\ summaries[loc[1].id].articleScore # 
       calculateArticleScore(articles[loc[1].id].content, summaries[loc[1].id].likeCount,
                             summaries[loc[1].id].usefulCount, summaries[loc[1].id].dislikeCount)

\* C5: incrementDislikeCount called without the admin flag throws the
\* permission error at once and writes nothing: no store document, no cache
\* entry and no scheduled cache deletion changes.
C5_DislikeGate ==
  [][\A p \in Procs :
       (/\ pc[p] = "idle"
        /\ loc'[p] # loc[p]
        /\ loc'[p].op = "dislike"
        /\ loc'[p].arg = [isAdmin |-> FALSE])
       => (/\ pc'[p] = "idle"
           /\ loc'[p].out = "PermissionDenied"
           /\ UNCHANGED <<stores, cache, pendingDelete>>)]_vars

C5_Witness ==
  /\ loc[1].op = "dislike"
  /\ loc[1].out = "PermissionDenied"
  /\ Exists(summaries, loc[1].id)
  /\ Exists(cache, loc[1].id)

\* C6: updateArticle on an id with no Article throws not-found and writes
\* nothing to the Content Store, the Summary Store or the aggregates.
C6_UpdateNotFound ==
  [][\A p \in Procs :
       /\ (pc[p] = "idle" /\ pc'[p] = "u_getMain") => UNCHANGED stores
       /\ (/\ pc[p] = "u_getMain"
           /\ pc'[p] # "u_getMain"
           /\ ~Exists(articles, loc[p].id)
           /\ faults' = faults)
          => (/\ pc'[p] = "idle"
              /\ loc'[p].out = "NotFound"
              /\ UNCHANGED stores)]_vars

C6_Witness ==
  /\ loc[1].op = "update"
  /\ loc[1].out = "NotFound"
  /\ summaries # NoMap

\* C7: when createArticle returns an id, getArticleById of that id gives the
\* title, content and authorId of the input and zero for likeCount,
\* usefulCount and dislikeCount.
C7_CreateThenGet ==
  [][\A p \in Procs :
       Returns(p, "create", "ok")
       => LET input == loc[p].arg
              got == getArticleById(loc[p].id)'
          IN /\ got # Null
             /\ got.title = input.title
             /\ got.content = input.content
             /\ got.authorId = input.authorId
             /\ got.likeCount = 0
             /\ got.usefulCount = 0
             /\ got.dislikeCount = 0]_vars

\* C8: with no operation in flight and no store call failed, the
\* articleScore of every summary is the score of the content in the Content
\* Store and the counters of the summary.
C8_ScoreCoherence ==
  (Idle /\ faults = 0)
  => \A id \in DOMAIN summaries \cap DOMAIN articles : CoherentScore(id)

\* C9: a getAllArticles call lists no id for which deleteArticle had returned
\* successfully when the call was made, a stale summary or not.
C9_DeletedNotListed ==
  [][\A p \in Procs :
       Returns(p, "list", "ok") => loc'[p].result \cap loc[p].pre = {}]_vars

C9_Witness ==
  /\ loc[1].op = "list"
  /\ loc[1].out = "ok"
  /\ \E id \in deletedOk : Exists(summaries, id)

\* C10: with no operation in flight and no store call failed, the
\* articleCount stored for each author is the number of summaries with that
\* authorId.
C10_ArticleCount ==
  (Idle /\ faults = 0)
  => \A a \in Authors :
       AuthorEntry(authorCountsDoc.counts, a).articleCount =
         Cardinality({id \in DOMAIN summaries : summaries[id].authorId = a})

\* C11: no Article of the Content Store has a usefulCount, likeCount,
\* dislikeCount or articleScore field, whatever rating fields createArticle
\* and updateArticle were passed and whatever increments ran.
C11_NoRatingsInContent ==
  \A id \in DOMAIN articles : DOMAIN articles[id] \cap RatingFields = {}

C11_Witness ==
  /\ pc[1] = "u_updateSummary"
  /\ loc[1].arg = BogusRatings
  /\ Exists(articles, loc[1].id)
  /\ Exists(summaries, loc[1].id)
  /\ summaries[loc[1].id].likeCount = 1

\* where an increment is once its write to the summary has succeeded
AfterSummaryWrite ==
  {"s_get", "s_query", "s_set", "i_cacheUpdate", "i_reads", "i_readsC", "i_readsA",
   "i_setCounts", "i_newMain", "i_newSummary", "i_newCounts",
   "i_authorSummary", "i_authorSet"}

\* the calls of an increment whose failure is caught where it happens: the
\* summary read inside getArticleById and the cache update
CaughtInPlace == {"i_getSummary", "i_newSummary", "i_cacheUpdate"}

\* C12 (as claimed): an increment whose write to the summary has succeeded
\* returns successfully, whatever fails afterwards in the author-aggregate
\* recomputation, the counts/article update or the cache update.
C12_AlwaysSucceeds ==
  [][\A p \in Procs :
       (/\ loc[p].op \in Increments
        /\ pc[p] \in AfterSummaryWrite
        /\ pc'[p] = "idle")
       => loc'[p].out = "ok"]_vars

\* C12 (amended): after the write to the summary, a failure of the cache
\* update, or of the summary read inside getArticleById, is swallowed and the
\* increment goes on and returns successfully; a failure of any other store
\* call of the aggregate updates is thrown to the caller.
C12_CaughtOrThrown ==
  [][\A p \in Procs :
       (loc[p].op \in Increments /\ pc[p] \in AfterSummaryWrite)
       => /\ (faults' # faults /\ pc[p] \in CaughtInPlace) => pc'[p] # "idle"
          /\ (faults' # faults /\ pc[p] \notin CaughtInPlace)
               => (pc'[p] = "idle" /\ loc'[p].out = "Error")
          /\ (faults' = faults /\ pc'[p] = "idle") => loc'[p].out = "ok"]_vars

C12_Witness ==
  /\ pc[1] = "i_authorSet"
  /\ loc[1].op = "like"
  /\ loc[1].failed = {"i_cacheUpdate"}
  /\ summaries[loc[1].id].likeCount = loc[1].pre.likeCount + 1

\* C13: a store call of an increment that fails ends the call with the error
\* and undoes nothing: the stores are as they were, and after the write to
\* the summary the targeted counter is one above its value at the call and
\* articleScore is the score the call wrote.
C13_FailurePolicy ==
  [][\A p \in Procs :
       (loc[p].op \in Increments /\ pc[p] # "idle" /\ faults' # faults)
       => /\ pc'[p] = "idle"
          /\ loc'[p].out = "Error"
          /\ UNCHANGED stores
          /\ pc[p] \in AfterSummaryWrite
               => /\ summaries'[loc[p].id][Counter(loc[p].op)] =
                       loc[p].pre[Counter(loc[p].op)] + 1
                  /\ summaries'[loc[p].id].articleScore =
                       NewScore(loc[p].op, loc[p].article)]_vars

\* an article that breaks a constraint of the schema
BreaksSchema(article) ==
  \/ Size(article.title) > 100
  \/ Size(article.content) > 10000
  \/ Cardinality(article.tags) \notin 1..8

C15_ContentWriteFails ==
  [][\A p \in Procs :
       (pc[p] = "c_addDoc" /\ faults' # faults)
       => (/\ pc'[p] = "idle"
           /\ loc'[p].out = "Error"
           /\ loc'[p].id = 0
           /\ UNCHANGED <<summaries, articleCountsDoc, authorCountsDoc>>)]_vars

C15_Witness ==
  /\ loc[1].op = "create"
  /\ loc[1].out = "Error"
  /\ loc[1].id = 0
  /\ faults = 1
  /\ calls = 1
  /\ summaries = NoMap
  /\ ~authorCountsDoc.exists

\* C16: deleteArticle deletes the Article first.  When that fails it throws
\* and the summary is as it was; when it succeeded and the deletion of the
\* summary fails, the Article stays deleted and deleteArticle returns
\* successfully.
C16_DeleteOrder ==
  [][\A p \in Procs :
       /\ (pc[p] = "d_main" /\ faults' # faults)
            => (/\ pc'[p] = "idle"
                /\ loc'[p].out = "Error"
                /\ UNCHANGED stores)
       /\ (pc[p] = "d_main" /\ pc'[p] # "d_main" /\ faults' = faults)
            => (/\ pc'[p] = "d_summary"
                /\ ~Exists(articles', loc[p].id)
                /\ UNCHANGED summaries)
       /\ (pc[p] = "d_summary" /\ faults' # faults)
            => (/\ pc'[p] = "idle"
                /\ loc'[p].out = "ok"
                /\ ~Exists(articles', loc[p].id)
                /\ UNCHANGED stores)]_vars

C16_Witness ==
  /\ loc[1].op = "delete"
  /\ loc[1].out = "ok"
  /\ faults = 1
  /\ Exists(summaries, loc[1].id)
  /\ ~Exists(articles, loc[1].id)

\* caller p makes a getArticleCountById call in this step
Gets(p) == pc[p] = "idle" /\ calls' # calls /\ loc'[p].op = "count"

\* C17: getArticleCountById returns the value of the entry, the loader not
\* run and the cache as it was, exactly when the key has an entry whose
\* expiry has not passed; otherwise it runs the loader once, stores what it
\* returned with expiry now + ttl and returns it.
C17_ReadThrough ==
  [][\A p \in Procs :
       /\ (Gets(p) /\ pc'[p] = "idle")
            => (/\ Exists(cache, loc'[p].id)
                /\ now < cache[loc'[p].id].expiry
                /\ loc'[p].result = cache[loc'[p].id].value
                /\ UNCHANGED cache)
       /\ (Gets(p) /\ pc'[p] # "idle")
            => (/\ pc'[p] = "g_load"
                /\ ~(Exists(cache, loc'[p].id) /\ now < cache[loc'[p].id].expiry)
                /\ UNCHANGED cache)
       /\ (pc[p] = "g_load" /\ pc'[p] # "g_load")
            => (/\ pc'[p] = "g_store"
                /\ UNCHANGED cache
                /\ Exists(summaries, loc[p].id)
                     => \A c \in Counters : loc'[p].result[c] = summaries[loc[p].id][c])
       /\ (pc[p] = "g_store" /\ pc'[p] # "g_store")
            => (/\ pc'[p] = "idle"
                /\ loc'[p].out = "ok"
                /\ loc'[p].result = loc[p].result
                /\ cache' = PutDoc(cache, loc[p].id,
                                   [value |-> loc[p].result, expiry |-> now + CacheTTL]))]_vars

C17_Witness ==
  /\ pc[1] = "idle"
  /\ loc[1].op = "count"
  /\ loc[1].out = "ok"
  /\ calls = 2
  /\ Exists(cache, loc[1].id)
  /\ cache[loc[1].id].expiry > CacheTTL
  /\ loc[1].result = cache[loc[1].id].value

\* C18: the deleteCache of a key leaves no entry for it, whatever its
\* expiry; a second deleteCache of the key leaves the cache as the first
\* left it; and a getArticleCountById of a key without an entry runs the
\* loader.
C18_Invalidate ==
  [][/\ \A id \in pendingDelete \ pendingDelete' :
          /\ ~Exists(cache', id)
          /\ DeleteCache(id)' = cache'
     /\ \A p \in Procs :
          (Gets(p) /\ ~Exists(cache, loc'[p].id)) => pc'[p] = "g_load"]_vars

C18_Witness ==
  /\ now > 0
  /\ now < CacheTTL
  /\ cache = NoMap
  /\ pendingDelete = {}
  /\ pc[1] = "g_load"

\* C19: a getArticleCountById served from the cache once an increment of the
\* article has returned gives the counters of the summary, not those of
\* before the increment.
C19_InvalidatedOnIncrement ==
  [][\A p \in Procs :
       (/\ Gets(p)
        /\ pc'[p] = "idle"
        /\ loc'[p].id \in pendingDelete
        /\ Exists(summaries, loc'[p].id))
       => \A c \in Counters : loc'[p].result[c] = summaries[loc'[p].id][c]]_vars

\* C20: every incrementLikeCount call succeeds and adds one to likeCount of
\* the summary, overlapped or not.  The articleScore it writes is the score
\* of the likeCount it read plus its own increment: when another call's
\* increment landed between its read and its write, the score lacks that
\* increment; when none did (the call does not overlap), articleScore is
\* the score of the content and the current counters again.
C20_ScoreUnderRace ==
  [][\A p \in Procs :
       /\ (loc[p].op = "like" /\ pc[p] # "idle" /\ pc'[p] = "idle")
            => loc'[p].out = "ok"
       /\ (loc[p].op = "like" /\ pc[p] = "i_updateSummary" /\ pc'[p] # "i_updateSummary")
            => LET id == loc[p].id
                   read == loc[p].article.likeCount
               IN /\ pc'[p] = "s_get"
                  /\ summaries'[id].likeCount = summaries[id].likeCount + 1
                  /\ summaries'[id].articleScore =
                       calculateArticleScore(articles[id].content, read + 1,
                                             summaries[id].usefulCount,
                                             summaries[id].dislikeCount)
                  /\ read = summaries[id].likeCount => CoherentScore(id)'
                  /\ read < summaries[id].likeCount => ~CoherentScore(id)']_vars

C20_Witness ==
  \E p \in Procs :
    /\ pc[p] = "s_get"
    /\ loc[p].op = "like"
    /\ \A q \in Procs \ {p} : pc[q] = "idle" /\ loc[q].op = "like" /\ loc[q].out = "ok"
    /\ calls = 3
    /\ loc[p].article.articleScore #
         calculateArticleScore(loc[p].article.content, loc[p].article.likeCount,
                               loc[p].article.usefulCount, loc[p].article.dislikeCount)
    /\ summaries[loc[p].id].likeCount = loc[p].article.likeCount + 1
    /\ CoherentScore(loc[p].id)
\* C21: the update of counts/article is a read-modify-write.  The call writes
\* the article's entry as it read it, with its own counter one higher, so a
\* write of the other counter that landed between its read and its write is
\* overwritten; the counters of the summary are raised atomically and keep
\* both increments.
C21_ShadowRace ==
  [][\A p \in Procs :
       /\ (pc[p] = "i_updateSummary" /\ pc'[p] # "i_updateSummary")
            => summaries'[loc[p].id][Counter(loc[p].op)] =
                 summaries[loc[p].id][Counter(loc[p].op)] + 1
       /\ (/\ pc[p] = "i_setCounts"
           /\ pc'[p] # "i_setCounts"
           /\ loc[p].id \in DOMAIN loc[p].countsDoc.counts)
            => LET read == loc[p].countsDoc.counts[loc[p].id]
                   written == articleCountsDoc'.counts[loc[p].id]
               IN /\ written[Counter(loc[p].op)] = read[Counter(loc[p].op)] + 1
                  /\ \A c \in DOMAIN read \ {Counter(loc[p].op)} :
                       written[c] = read[c]]_vars

C21_Witness ==
  /\ pc[1] = "i_authorSummary"
  /\ loc[1].op = "like"
  /\ loc[1].countsDoc.exists
  /\ pc[2] = "idle"
  /\ loc[2].op = "useful"
  /\ loc[2].out = "ok"
  /\ summaries[1].usefulCount = 1
  /\ summaries[1].likeCount = loc[1].pre.likeCount + 1
  /\ articleCountsDoc.counts[1].usefulCount = 0
\* C22: with no operation in flight and no store call failed, the entry of
\* every rated article in counts/article has the likeCount, usefulCount and
\* dislikeCount of the article's summary (a counter the entry lacks read as 0).
C22_ShadowOfSummary ==
  (Idle /\ faults = 0)
  => \A id \in DOMAIN articleCountsDoc.counts \cap DOMAIN summaries :
       \A c \in Counters :
         OrZero(Field(articleCountsDoc.counts[id], c)) = summaries[id][c]
\* the sum of f over the ids of S
RECURSIVE Total(_, _)
Total(S, f) ==
  IF S = {} THEN 0
  ELSE LET x == CHOOSE y \in S : TRUE IN f[x] + Total(S \ {x}, f)

\* the summaries of an author
SummariesOf(authorId) == {id \in DOMAIN summaries : summaries[id].authorId = authorId}

\* C23: the write of updateAuthorScore(authorId, articleId, newScore) puts, as
\* the author's entry, articleCount = the number of the author's summaries,
\* articleScoreSum = the sum over them of newScore for articleId and of the
\* stored articleScore for the others, likeCount and usefulCount = the sums
\* of the stored counters, and leaves the other authors' entries alone; and
\* every increment and every updateArticle runs it once its write to the
\* summary has succeeded.
C23_FullRecomputation ==
  [][\A p \in Procs :
       /\ (pc[p] = "s_set" /\ pc'[p] # "s_set" /\ faults' = faults /\ loc[p].failed = {})
            => LET authorId == loc[p].article.authorId
                   mine == SummariesOf(authorId)
               IN /\ authorCountsDoc'.counts[authorId] =
                       [articleCount |-> Cardinality(mine),
                        articleScoreSum |->
                          Total(mine, [id \in mine |->
                                         IF id = loc[p].id THEN loc[p].score
                                         ELSE OrZero(summaries[id].articleScore)]),
                        likeCount |-> Total(mine, [id \in mine |-> summaries[id].likeCount]),
                        usefulCount |-> Total(mine, [id \in mine |-> summaries[id].usefulCount])]
                  /\ \A a \in DOMAIN authorCountsDoc.counts \ {authorId} :
                       authorCountsDoc'.counts[a] = authorCountsDoc.counts[a]
       /\ (/\ pc[p] \in {"i_updateSummary", "u_updateSummary"}
           /\ pc'[p] # pc[p]
           /\ faults' = faults
           /\ Exists(summaries, loc[p].id))
            => pc'[p] = "s_get"
       /\ (pc[p] = "s_get" /\ pc'[p] # "s_get" /\ faults' = faults) => pc'[p] = "s_query"
       /\ (pc[p] = "s_query" /\ pc'[p] # "s_query" /\ faults' = faults) => pc'[p] = "s_set"
       /\ Returns(p, "update", "ok") => pc[p] = "s_set"]_vars

C23_Witness ==
  /\ pc[1] = "i_cacheUpdate"
  /\ loc[1].op = "like"
  /\ loc[1].failed = {}
  /\ faults = 0
  /\ Cardinality(SummariesOf("alice")) = 2
  /\ authorCountsDoc.counts["alice"].articleCount = 2
  /\ authorCountsDoc.counts["alice"].likeCount = 2
\* C24: the write of updateAuthorScoreOnArticleCreate adds the score of the
\* new article's summary to the author's articleScoreSum and one to the
\* articleCount, keeps the author's likeCount and usefulCount, starts the
\* entry at that score and articleCount 1 when the author had none, and
\* leaves the other authors' entries alone; createArticle returns the id
\* only after it.
C24_FoldOnCreate ==
  [][\A p \in Procs :
       /\ (pc[p] = "c_authorSet" /\ pc'[p] # "c_authorSet" /\ faults' = faults)
            => LET authorId == loc[p].arg.authorId
                   had == authorId \in DOMAIN authorCountsDoc.counts
                   old == IF had THEN authorCountsDoc.counts[authorId] ELSE NoAuthorCount
                   new == authorCountsDoc'.counts[authorId]
                   initial == summaries[loc[p].id].articleScore
               IN /\ new.articleScoreSum = old.articleScoreSum + initial
                  /\ new.articleCount = old.articleCount + 1
                  /\ new.likeCount = old.likeCount
                  /\ new.usefulCount = old.usefulCount
                  /\ ~had => new = [likeCount |-> 0, usefulCount |-> 0,
                                    articleScoreSum |-> initial, articleCount |-> 1]
                  /\ \A a \in DOMAIN authorCountsDoc.counts \ {authorId} :
                       authorCountsDoc'.counts[a] = authorCountsDoc.counts[a]
                  /\ pc'[p] = "idle"
                  /\ loc'[p].out = "ok"
                  /\ loc'[p].result = loc[p].id
       /\ Returns(p, "create", "ok") => pc[p] = "c_authorSet"]_vars

C24_Witness ==
  /\ pc[1] = "idle"
  /\ loc[1].op = "create"
  /\ loc[1].out = "ok"
  /\ loc[1].result = 2
  /\ faults = 0
  /\ Cardinality(SummariesOf("alice")) = 2
  /\ authorCountsDoc.counts["alice"].articleCount = 2
  /\ authorCountsDoc.counts["alice"].usefulCount > 0
\* C25: when updateArticle(id, partial) has written the summary, none of its
\* store calls having failed, articleScore is the score of the effective
\* content (the content of the partial when it has one, the content the
\* Article had otherwise) and the counters of the summary; the Content Store
\* holds that effective content; and likeCount, usefulCount and dislikeCount
\* of the summary are as they were, rating fields in the partial or not.
C25_UpdateEffective ==
  [][\A p \in Procs :
       (/\ pc[p] = "u_updateSummary"
        /\ pc'[p] = "s_get"
        /\ loc[p].failed = {}
        /\ faults' = faults)
       => LET id == loc[p].id
              effective == IF "content" \in DOMAIN loc[p].arg
                           THEN loc[p].arg.content
                           ELSE loc[p].article.content
          IN /\ summaries'[id].articleScore =
                  calculateArticleScore(effective, summaries[id].likeCount,
                                        summaries[id].usefulCount,
                                        summaries[id].dislikeCount)
             /\ articles'[id].content = effective
             /\ \A c \in Counters : summaries'[id][c] = summaries[id][c]]_vars
\* C26: with no operation in flight and no store call failed, the Article
\* and the ArticleSummary of an id hold the same value in every field the two
\* records share among title, description, tags, author and imageUrl,
\* whatever partial field sets updateArticle was passed.
C26_StoreAgreement ==
  (Idle /\ faults = 0)
  => \A id \in DOMAIN articles \cap DOMAIN summaries :
       \A f \in RelevantFields : Field(articles[id], f) = Field(summaries[id], f)

C26_Witness ==
  /\ Idle
  /\ faults = 0
  /\ calls = 2
  /\ loc[1].op = "update"
  /\ loc[1].out = "ok"
  /\ articles[loc[1].id].title = "t2"
  /\ articles[loc[1].id].content = "hello"
  /\ summaries[loc[1].id].title = "t2"
\* C27: when the summary write of createArticle failed and the compensating
\* delete fails too, createArticle ends at once with the error and no id,
\* the delete not tried again, and the Article stays in the Content Store
\* with no ArticleSummary.
C27_CompensationFails ==
  [][\A p \in Procs :
       (pc[p] = "c_cleanup" /\ loc[p].failed = {"c_setSummary"} /\ faults' # faults)
       => (/\ pc'[p] = "idle"
           /\ loc'[p].out = "Error"
           /\ loc'[p].result = Null
           /\ Exists(articles', loc[p].id)
           /\ ~Exists(summaries', loc[p].id)
           /\ UNCHANGED stores)]_vars

C27_Witness ==
  /\ pc[1] = "idle"
  /\ loc[1].op = "create"
  /\ loc[1].out = "Error"
  /\ faults = 2
  /\ calls = 1
  /\ Exists(articles, loc[1].id)
  /\ ~Exists(summaries, loc[1].id)
\* C28: an increment of an id that has no Article throws not-found once the
\* Article was looked up, and the call writes nothing: the Summary Store,
\* the two aggregate documents, the cache and the scheduled cache deletions
\* are as they were, a stale ArticleSummary of the id existing or not.
C28_IncrementNotFound ==
  [][\A p \in Procs :
       /\ (pc[p] = "idle" /\ pc'[p] = "i_getMain")
            => UNCHANGED <<stores, cache, pendingDelete>>
       /\ (/\ pc[p] = "i_getMain"
           /\ pc'[p] # "i_getMain"
           /\ ~Exists(articles, loc[p].id)
           /\ faults' = faults)
            => (/\ pc'[p] = "idle"
                /\ loc'[p].out = "NotFound"
                /\ UNCHANGED <<stores, cache, pendingDelete>>)]_vars

C28_Witness ==
  /\ pc[1] = "idle"
  /\ loc[1].op \in Increments
  /\ loc[1].out = "NotFound"
  /\ ~Exists(articles, loc[1].id)
  /\ Exists(summaries, loc[1].id)
  /\ ~articleCountsDoc.exists
\* C29: the value of a cache entry is only ever set by the load of a
\* getArticleCountById call whose read of the ArticleSummary succeeded, and
\* it is the counters that read returned (zeros when the summary does not
\* exist): no increment puts counters it computed into an entry, and nothing
\* is stored when the read failed.
C29_CacheCopiesReads ==
  [][\A id \in DOMAIN cache' :
       (id \notin DOMAIN cache \/ cache'[id].value # cache[id].value)
       => \E p \in Procs :
            /\ pc[p] = "g_store"
            /\ pc'[p] = "idle"
            /\ loc[p].id = id
            /\ "g_load" \notin loc[p].failed
            /\ cache'[id].value = loc[p].result]_vars
\* C30: no entry of counts/author ever has an averageScore field; and
\* getAuthorCountById, its read having succeeded, writes nothing and returns
\* the author's entry with averageScore = articleScoreSum / articleCount
\* when the entry's articleCount is above 0, and averageScore 0 when it is
\* 0 or the author has no entry.
C30_AverageDerived ==
  [][/\ \A a \in DOMAIN authorCountsDoc'.counts :
          "averageScore" \notin DOMAIN authorCountsDoc'.counts[a]
     /\ \A p \in Procs :
          (pc[p] = "a_get" /\ pc'[p] # "a_get" /\ faults' = faults)
          => LET authorId == loc[p].arg.authorId
                 has == authorId \in DOMAIN authorCountsDoc.counts
                 entry == authorCountsDoc.counts[authorId]
                 got == loc'[p].result
             IN /\ pc'[p] = "idle"
                /\ loc'[p].out = "ok"
                /\ UNCHANGED stores
                /\ got.averageScore.den > 0
                /\ IF has /\ entry.articleCount > 0
                   THEN /\ got.averageScore.num * entry.articleCount =
                             entry.articleScoreSum * got.averageScore.den
                        /\ got.articleScoreSum = entry.articleScoreSum
                        /\ got.articleCount = entry.articleCount
                   ELSE got.averageScore.num = 0]_vars

C30_Witness ==
  /\ pc[1] = "idle"
  /\ loc[1].op = "authorCount"
  /\ loc[1].out = "ok"
  /\ faults = 0
  /\ loc[1].result.articleCount = 2
  /\ loc[1].result.articleScoreSum = 1000
  /\ loc[1].result.averageScore = [num |-> 500, den |-> 1]
\* C31: when createArticle ends with an error after an id was generated and
\* its compensating delete succeeded, neither an Article nor an
\* ArticleSummary exists under that id, whether the step that failed was the
\* summary write or the author-aggregate fold after it.
C31_NoHalfCreatedPair ==
  [][\A p \in Procs :
       (pc[p] = "c_cleanup" /\ pc'[p] # "c_cleanup" /\ faults' = faults)
       => (/\ pc'[p] = "idle"
           /\ loc'[p].out = "Error"
           /\ ~Exists(articles', loc[p].id)
           /\ ~Exists(summaries', loc[p].id))]_vars
\* the author whose entry of counts/author the operation of caller p updates
AuthorOf(p) ==
  IF loc[p].op = "create" THEN loc[p].arg.authorId ELSE Field(loc[p].article, "authorId")

\* C32: a write to counts/author by an operation on an article of one author
\* leaves the entry of every other author as it was, whatever operations
\* on the other authors' entries it overlaps.
C32_AuthorIsolation ==
  [][\A p \in Procs :
       (pc'[p] # pc[p] /\ authorCountsDoc' # authorCountsDoc)
       => \A b \in DOMAIN authorCountsDoc.counts \ {AuthorOf(p)} :
            /\ b \in DOMAIN authorCountsDoc'.counts
            /\ authorCountsDoc'.counts[b] = authorCountsDoc.counts[b]]_vars

\* C33: no step of an updateArticle, an increment or an author-aggregate
\* recomputation, in any interleaving, lowers likeCount, usefulCount or
\* dislikeCount of an ArticleSummary that exists before and after the step,
\* whatever the partial fields passed to updateArticle.
C33_CountersNeverDecrease ==
  [][\A id \in DOMAIN summaries \cap DOMAIN summaries' :
       \A f \in Counters :
         OrZero(Field(summaries'[id], f)) >= OrZero(Field(summaries[id], f))]_vars

\* an updateArticle passed zeroed rating fields has written the summary of an
\* article that has a like, and the like is still there
C33_Witness ==
  \E id \in DOMAIN summaries :
    /\ pc[1] = "s_get"
    /\ loc[1].op = "update"
    /\ loc[1].id = id
    /\ loc[1].arg = BogusRatings
    /\ summaries[id].likeCount > 0

\* C34: once a getArticleCountById call and an increment it overlapped have
\* both returned and the increment's deleteCache has run, the cache holds no
\* unexpired entry whose counters are those the summary had before the
\* increment: an entry of an article carries the counters of its summary.
C34_NoStaleEntry ==
  (Idle /\ pendingDelete = {})
  => \A id \in DOMAIN cache \cap DOMAIN summaries :
       Fresh(id) => \A c \in Counters : cache[id].value[c] = summaries[id][c]

\* C35: when updateArticle ends with an error after it has read the Article,
\* the Article is field for field the one it read when it started: a call
\* that fails has written nothing to the Content Store.
C35_AllOrNothing ==
  [][\A p \in Procs :
       (/\ loc[p].op = "update"
        /\ pc[p] \notin {"idle", "u_getMain"}
        /\ pc'[p] = "idle"
        /\ loc'[p].out # "ok"
        /\ Exists(articles', loc[p].id))
       => articles'[loc[p].id] = Without(loc[p].article, RatingFields)]_vars

\* C36: when an updateArticle that sets a new, non-empty content returns
\* successfully and the increment it overlapped has returned before it, the
\* articleScore of the summary is the score of the content the Content
\* Store holds and the counters the summary holds.
C36_ScoreAfterEditAndRating ==
  [][\A p \in Procs :
       (/\ loc[p].op = "update"
        /\ pc[p] # "idle"
        /\ pc'[p] = "idle"
        /\ loc'[p].out = "ok"
        /\ "content" \in DOMAIN loc[p].arg
        /\ loc[p].arg.content \notin {"", loc[p].article.content}
        /\ \A q \in Procs \ {p} : pc[q] = "idle"
        /\ Exists(articles', loc[p].id)
        /\ Exists(summaries', loc[p].id))
       => CoherentScore(loc[p].id)']_vars

\* C37: once createArticle calls of one author, overlapping or not, have all
\* returned successfully, the author's entry of counts/author counts every
\* article created: articleCount is their number and articleScoreSum the
\* sum of their scores.
C37_CreationFold ==
  Idle
  => \A a \in Authors :
       SummariesOf(a) = DOMAIN summaries
       => /\ AuthorEntry(authorCountsDoc.counts, a).articleCount
               = Cardinality(SummariesOf(a))
          /\ AuthorEntry(authorCountsDoc.counts, a).articleScoreSum
               = Total(SummariesOf(a),
                       [id \in DOMAIN summaries |-> summaries[id].articleScore])

\* C38: no step of an increment adds an ArticleSummary; an increment that
\* comes to its counter write when the summary is missing ends with an error
\* and writes nothing; and an id whose deleteArticle has returned, every
\* store call having succeeded, has no summary from then on, whatever
\* increment overlapped the deletion.
C38_NoResurrection ==
  [][/\ \A p \in Procs :
          (loc[p].op \in Increments /\ pc'[p] # pc[p])
          => /\ DOMAIN summaries' \subseteq DOMAIN summaries
             /\ (pc[p] = "i_updateSummary" /\ ~Exists(summaries, loc[p].id))
                  => (/\ pc'[p] = "idle"
                      /\ loc'[p].out = "Error"
                      /\ summaries' = summaries)
     /\ \A id \in deletedOk' : ~Exists(summaries', id)]_vars

\* a deleteArticle ran between the reads and the counter write of an
\* increment on the same id: both have returned, the increment with an error
C38_Witness ==
  /\ Idle
  /\ loc[1].op = "delete"
  /\ loc[1].out = "ok"
  /\ loc[2].op \in Increments
  /\ loc[2].out = "Error"
  /\ loc[2].id = loc[1].id
  /\ loc[1].id \in deletedOk
  /\ ~Exists(summaries, loc[1].id)

\* C39: no two user profiles carry the same username, in any state reached
\* by createOrUpdateUserProfile and updateUsername calls that overlap store
\* call by store call.
C39_UniqueUsernames ==
  \A u \in DOMAIN users : \A v \in DOMAIN users \ {u} :
    users[u].username # users[v].username
====
